---- MODULE Spec2Model ----
(***************************************************************************)
(* Side-effect summaries of object-sensitive DCE                           *)
(* (opt/object-sensitive-dce/SideEffectSummary.cpp).                       *)
(*                                                                         *)
(*   - SummaryBuilder: the per-method summary of effects, built from the   *)
(*     method's instructions, the local pointer analysis and the summaries *)
(*     of the callees (pure operators, and a step machine: SpecBuild).     *)
(*   - analyze_scope / analyze_method_recursive: the call-graph driven,    *)
(*     memoized driver, run by several worker threads (Spec, SpecFair).    *)
(***************************************************************************)
EXTENDS Integers, Sequences, FiniteSets, TLC

VARIABLES
  prog,          \* the input of analyze_scope: methods, call graph, scope
  phase,         \* position of analyze_scope: "start", "walk", "done"
  summary_map,   \* SummaryMap* summary_map (input and output)
  summary_cmap,  \* SummaryConcurrentMap summary_cmap
  todo,          \* methods of the scope the parallel walk has not handed out
  stack,         \* per worker thread: the frames of analyze_method_recursive
  b_in,          \* SummaryBuilder's arguments: code, pointers, invoke map
  b_pc,          \* position of SummaryBuilder::build
  b_block,       \* index of the current block of cfg.blocks()
  b_insn,        \* index of the next instruction of the current block
  b_env,         \* the local `env` of build()
  b_summary,     \* the local `summary` of build()
  x_pc,          \* position of a serialization run
  x_summary,     \* the Summary given to to_s_expr
  x_expr,        \* the s_expr given to Summary::from_s_expr
  x_result,      \* what Summary::from_s_expr did
  t_in,          \* Transform::apply's inputs: config and the analysis facts
  t_pc,          \* position of Transform::apply: "scan", "commit", "done"
  t_code,        \* the IRCode: its instruction stream
  t_pos,         \* index of the instruction the scan is at
  t_replacement, \* the list the last call of the visitor returned
  m_replacements, \* Transform::m_replacements
  m_deletes,     \* Transform::m_deletes
  m_stats,       \* Transform::m_stats
  f_pc,          \* position of a FinalInlinePassV2 run on one class
  f_in,          \* the class as the test created it
  f_cls          \* the class now: static values, <clinit> and its code

vars == <<prog, phase, summary_map, summary_cmap, todo, stack,
          b_in, b_pc, b_block, b_insn, b_env, b_summary,
          x_pc, x_summary, x_expr, x_result,
          t_in, t_pc, t_code, t_pos, t_replacement, m_replacements, m_deletes,
          m_stats, f_pc, f_in, f_cls>>
driver_vars == <<prog, phase, summary_map, summary_cmap, todo, stack>>
builder_vars == <<b_in, b_pc, b_block, b_insn, b_env, b_summary>>
serial_vars == <<x_pc, x_summary, x_expr, x_result>>
\* the variables of neither the driver nor the builder
transform_vars == <<t_in, t_pc, t_code, t_pos, t_replacement, m_replacements,
                    m_deletes, m_stats>>
final_vars == <<f_pc, f_in, f_cls>>
rest_vars == <<serial_vars, transform_vars, final_vars>>

(***************************************************************************)
(* Bounds of the model.                                                    *)
(***************************************************************************)
NThreads == 2
MaxDepth == 4

Threads == 1 .. NThreads

(***************************************************************************)
(* Summary and its effects.                                                *)
(***************************************************************************)
EFF_THROWS == "EFF_THROWS"
EFF_LOCKS == "EFF_LOCKS"
EFF_WRITE_MAY_ESCAPE == "EFF_WRITE_MAY_ESCAPE"
EFF_UNKNOWN_INVOKE == "EFF_UNKNOWN_INVOKE"
EFF_NO_OPTIMIZE == "EFF_NO_OPTIMIZE"

Effects ==
  {EFF_THROWS, EFF_LOCKS, EFF_WRITE_MAY_ESCAPE, EFF_UNKNOWN_INVOKE,
   EFF_NO_OPTIMIZE}

\* Summary(): no effects, no modified parameters.
Summary == [effects |-> {}, modified_params |-> {}]

\* Summary(std::initializer_list<param_idx_t>): only modified parameters.
SummaryOfParams(ps) == [effects |-> {}, modified_params |-> ps]

(***************************************************************************)
(* Instructions.  An instruction is identified by its id (the pointer      *)
(* IRInstruction* of the code); dest is the empty set or one register.     *)
(***************************************************************************)
IOPCODE_LOAD_PARAM == "IOPCODE_LOAD_PARAM"
IOPCODE_LOAD_PARAM_OBJECT == "IOPCODE_LOAD_PARAM_OBJECT"
IOPCODE_LOAD_PARAM_WIDE == "IOPCODE_LOAD_PARAM_WIDE"
OPCODE_NEW_INSTANCE == "OPCODE_NEW_INSTANCE"
OPCODE_MOVE_OBJECT == "OPCODE_MOVE_OBJECT"
OPCODE_CONST == "OPCODE_CONST"
OPCODE_THROW == "OPCODE_THROW"
OPCODE_MONITOR_ENTER == "OPCODE_MONITOR_ENTER"
OPCODE_MONITOR_EXIT == "OPCODE_MONITOR_EXIT"
OPCODE_SPUT == "OPCODE_SPUT"
OPCODE_SPUT_OBJECT == "OPCODE_SPUT_OBJECT"
OPCODE_IPUT == "OPCODE_IPUT"
OPCODE_IPUT_OBJECT == "OPCODE_IPUT_OBJECT"
OPCODE_APUT == "OPCODE_APUT"
OPCODE_APUT_OBJECT == "OPCODE_APUT_OBJECT"
OPCODE_FILL_ARRAY_DATA == "OPCODE_FILL_ARRAY_DATA"
OPCODE_INVOKE_SUPER == "OPCODE_INVOKE_SUPER"
OPCODE_INVOKE_INTERFACE == "OPCODE_INVOKE_INTERFACE"
OPCODE_INVOKE_STATIC == "OPCODE_INVOKE_STATIC"
OPCODE_INVOKE_DIRECT == "OPCODE_INVOKE_DIRECT"
OPCODE_INVOKE_VIRTUAL == "OPCODE_INVOKE_VIRTUAL"
OPCODE_RETURN_VOID == "OPCODE_RETURN_VOID"

SPutOpcodes == {OPCODE_SPUT, OPCODE_SPUT_OBJECT}
IPutOpcodes == {OPCODE_IPUT, OPCODE_IPUT_OBJECT}
APutOpcodes == {OPCODE_APUT, OPCODE_APUT_OBJECT}
MonitorOpcodes == {OPCODE_MONITOR_ENTER, OPCODE_MONITOR_EXIT}
UnknownInvokeOpcodes == {OPCODE_INVOKE_SUPER, OPCODE_INVOKE_INTERFACE}
ResolvedInvokeOpcodes ==
  {OPCODE_INVOKE_STATIC, OPCODE_INVOKE_DIRECT, OPCODE_INVOKE_VIRTUAL}
InvokeOpcodes == UnknownInvokeOpcodes \cup ResolvedInvokeOpcodes

Insn(id, op, srcs, dest) == [id |-> id, op |-> op, srcs |-> srcs, dest |-> dest]

\* insn->src(i), i counted from 0
src(insn, i) == insn.srcs[i + 1]

(***************************************************************************)
(* The local pointer analysis (ptrs::Environment, ptrs::FixpointIterator). *)
(* An environment is bottom, or binds every register to a pointer set      *)
(* (top, or a set of allocation sites) and holds the set of allocation     *)
(* sites that may have escaped.  An allocation site is the instruction     *)
(* that made the object.                                                   *)
(***************************************************************************)
Regs == {0, 1, 2}

PointersTop == [is_value |-> FALSE, elements |-> {}]
PointersOf(sites) == [is_value |-> TRUE, elements |-> sites]

EnvBottom == [bottom |-> TRUE, pointers |-> [r \in Regs |-> PointersTop], escaped |-> {}]
EnvTop == [bottom |-> FALSE, pointers |-> [r \in Regs |-> PointersTop], escaped |-> {}]

is_bottom_never(env) == FALSE

is_bottom(env) == env.bottom
get_pointers(env, reg) == env.pointers[reg]
may_have_escaped(env, insn) == insn \in env.escaped

set_pointers(env, reg, ptrs) == [env EXCEPT !.pointers[reg] = ptrs]
set_may_escape(env, reg) ==
  [env EXCEPT !.escaped = @ \cup env.pointers[reg].elements]

RECURSIVE escape_all(_, _, _)
escape_all(env, srcs, i) ==
  IF i > Len(srcs) THEN env
  ELSE escape_all(set_may_escape(env, srcs[i]), srcs, i + 1)

\* ptrs::FixpointIterator::analyze_instruction(insn, &env): the transfer
\* function of the pointer analysis.
analyze_instruction(insn, env) ==
  IF is_bottom(env) THEN env
  ELSE IF insn.op \in {OPCODE_NEW_INSTANCE, IOPCODE_LOAD_PARAM_OBJECT}
    THEN IF insn.dest = {} THEN env
         ELSE set_pointers(env, CHOOSE r \in insn.dest : TRUE, PointersOf({insn}))
  ELSE IF insn.op = OPCODE_MOVE_OBJECT
    THEN set_pointers(env, CHOOSE r \in insn.dest : TRUE,
                      get_pointers(env, src(insn, 0)))
  ELSE IF insn.op \in {OPCODE_SPUT_OBJECT, OPCODE_IPUT_OBJECT, OPCODE_APUT_OBJECT}
    THEN set_may_escape(env, src(insn, 0))
  ELSE IF insn.op \in InvokeOpcodes
    THEN escape_all(env, insn.srcs, 1)
  ELSE IF insn.dest # {}
    THEN set_pointers(env, CHOOSE r \in insn.dest : TRUE, PointersTop)
  ELSE env

(***************************************************************************)
(* SummaryBuilder.  A code object is [params, blocks]: the parameter       *)
(* instructions and the blocks of the cfg, each a sequence of              *)
(* instructions; ptrs_fp_iter holds the entry state of every block.        *)
(***************************************************************************)

param_insn_map_at_objects(code, insn) ==
  LET pos == CHOOSE k \in DOMAIN code.params : code.params[k] = insn
  IN Cardinality({j \in 1 .. (pos - 1) :
                    code.params[j].op = IOPCODE_LOAD_PARAM_OBJECT})

\* m_param_insn_map.at(insn): the position of insn among the parameter
\* instructions, from 0 (the constructor's loop).
param_insn_map_at(code, insn) ==
  CHOOSE idx \in 0 .. (Len(code.params) - 1) : code.params[idx + 1] = insn

ClassifyHeapWriteExclusive(code, env, modified_ptr_reg, summary) ==
  LET pointers == get_pointers(env, modified_ptr_reg)
  IN IF ~pointers.is_value
        \/ \E insn \in pointers.elements : may_have_escaped(env, insn)
     THEN [summary EXCEPT !.effects = @ \cup {EFF_WRITE_MAY_ESCAPE}]
     ELSE [summary EXCEPT !.modified_params = @ \cup
             {param_insn_map_at(code, insn) :
                insn \in {i \in pointers.elements : i.op = IOPCODE_LOAD_PARAM_OBJECT}}]

\* SummaryBuilder::classify_heap_write
classify_heap_write(code, env, modified_ptr_reg, summary) ==
  LET pointers == get_pointers(env, modified_ptr_reg)
  IN IF ~pointers.is_value
     THEN [summary EXCEPT !.effects = @ \cup {EFF_WRITE_MAY_ESCAPE}]
     ELSE LET escaping == {insn \in pointers.elements : may_have_escaped(env, insn)}
              params == {insn \in pointers.elements :
                           /\ ~may_have_escaped(env, insn)
                           /\ insn.op = IOPCODE_LOAD_PARAM_OBJECT}
          IN [effects |-> summary.effects
                            \cup (IF escaping # {} THEN {EFF_WRITE_MAY_ESCAPE} ELSE {}),
              modified_params |-> summary.modified_params
                            \cup {param_insn_map_at(code, insn) : insn \in params}]

classify_modified_params_first(code, env, insn, idxs, summary) ==
  IF idxs = {} THEN summary
  ELSE classify_heap_write(code, env, src(insn, 0), summary)

RECURSIVE classify_modified_params(_, _, _, _, _)
\* the loop over callee_summary.modified_params
classify_modified_params(code, env, insn, idxs, summary) ==
  IF idxs = {} THEN summary
  ELSE LET idx == CHOOSE i \in idxs : TRUE
       IN classify_modified_params(
            code, env, insn, idxs \ {idx},
            classify_heap_write(code, env, src(insn, idx), summary))

HeapWriteRegFirstSrc(insn) == src(insn, 0)

\* the register a heap write writes through
HeapWriteReg(insn) ==
  IF insn.op = OPCODE_FILL_ARRAY_DATA THEN src(insn, 0) ELSE src(insn, 1)

AddEffect(summary, eff) == [summary EXCEPT !.effects = @ \cup {eff}]

ResolvedInvokeEffectsSilent(code, invoke_to_summary_cmap, env, insn, summary) ==
  IF insn.id \in DOMAIN invoke_to_summary_cmap
  THEN LET callee_summary == invoke_to_summary_cmap[insn.id]
       IN classify_modified_params(
            code, env, insn, callee_summary.modified_params,
            [summary EXCEPT !.effects = @ \cup callee_summary.effects])
  ELSE summary

\* the case OPCODE_INVOKE_STATIC / DIRECT / VIRTUAL
ResolvedInvokeEffects(code, invoke_to_summary_cmap, env, insn, summary) ==
  IF insn.id \in DOMAIN invoke_to_summary_cmap
  THEN LET callee_summary == invoke_to_summary_cmap[insn.id]
       IN classify_modified_params(
            code, env, insn, callee_summary.modified_params,
            [summary EXCEPT !.effects = @ \cup callee_summary.effects])
  ELSE AddEffect(summary, EFF_UNKNOWN_INVOKE)

analyze_instruction_effects_all_resolved(code, invoke_to_summary_cmap, env, insn, summary) ==
  IF insn.op = OPCODE_THROW THEN AddEffect(summary, EFF_THROWS)
  ELSE IF insn.op \in MonitorOpcodes THEN AddEffect(summary, EFF_LOCKS)
  ELSE IF insn.op \in SPutOpcodes THEN AddEffect(summary, EFF_WRITE_MAY_ESCAPE)
  ELSE IF insn.op \in IPutOpcodes \cup APutOpcodes \cup {OPCODE_FILL_ARRAY_DATA}
    THEN classify_heap_write(code, env, HeapWriteReg(insn), summary)
  ELSE IF insn.op \in InvokeOpcodes
    THEN ResolvedInvokeEffects(code, invoke_to_summary_cmap, env, insn, summary)
  ELSE summary

\* SummaryBuilder::analyze_instruction_effects
analyze_instruction_effects(code, invoke_to_summary_cmap, env, insn, summary) ==
  IF insn.op = OPCODE_THROW THEN AddEffect(summary, EFF_THROWS)
  ELSE IF insn.op \in MonitorOpcodes THEN AddEffect(summary, EFF_LOCKS)
  ELSE IF insn.op \in SPutOpcodes THEN AddEffect(summary, EFF_WRITE_MAY_ESCAPE)
  ELSE IF insn.op \in IPutOpcodes \cup APutOpcodes \cup {OPCODE_FILL_ARRAY_DATA}
    THEN classify_heap_write(code, env, HeapWriteReg(insn), summary)
  ELSE IF insn.op \in UnknownInvokeOpcodes
    THEN AddEffect(summary, EFF_UNKNOWN_INVOKE)
  ELSE IF insn.op \in ResolvedInvokeOpcodes
    THEN ResolvedInvokeEffects(code, invoke_to_summary_cmap, env, insn, summary)
  ELSE summary

\* get_entry_state_at(block)
get_entry_state_at(ptrs_fp_iter, b) == ptrs_fp_iter[b]

RECURSIVE build_insns(_, _, _, _, _, _)
\* the inner loop of build(): the instructions of one block from index i
build_insns(code, invoke_to_summary_cmap, insns, i, env, summary) ==
  IF i > Len(insns) THEN summary
  ELSE build_insns(
         code, invoke_to_summary_cmap, insns, i + 1,
         analyze_instruction(insns[i], env),
         analyze_instruction_effects(code, invoke_to_summary_cmap, env, insns[i],
                                     summary))

RECURSIVE build_blocks(_, _, _, _, _)
\* the outer loop of build(): the blocks from index b
build_blocks(code, invoke_to_summary_cmap, ptrs_fp_iter, b, summary) ==
  IF b > Len(code.blocks) THEN summary
  ELSE LET env == get_entry_state_at(ptrs_fp_iter, b)
       IN build_blocks(
            code, invoke_to_summary_cmap, ptrs_fp_iter, b + 1,
            IF is_bottom(env) THEN summary
            ELSE build_insns(code, invoke_to_summary_cmap, code.blocks[b], 1, env,
                             summary))

\* SummaryBuilder(invoke_to_summary_cmap, ptrs_fp_iter, code).build()
build(invoke_to_summary_cmap, ptrs_fp_iter, code) ==
  build_blocks(code, invoke_to_summary_cmap, ptrs_fp_iter, 1, Summary)

(***************************************************************************)
(* The input of analyze_scope.  A program gives, for every method, whether *)
(* it has code, its invoke instructions, whether the call graph has a node *)
(* for it and the node's callee edges (invoke instruction, callee); and    *)
(* the scope that is walked, the summaries the caller's map holds and the  *)
(* methods marked no_optimizations.                                        *)
(***************************************************************************)
Methods == {"A", "B", "C"}
ObjectInit == "Ljava/lang/Object;.<init>:()V"
AllMethods == Methods \cup {ObjectInit}

Edge(insn, callee) == [insn |-> insn, callee |-> callee]

Shape(has_code, has_node, invokes, edges) ==
  [has_code |-> has_code, has_node |-> has_node, invokes |-> invokes,
   edges |-> edges]

NoCode == Shape(FALSE, TRUE, <<>>, <<>>)
Leaf == Shape(TRUE, TRUE, <<>>, <<>>)
Call1(op, x) == Shape(TRUE, TRUE, <<op>>, <<Edge(11, x)>>)
NoEdge(op, has_node) == Shape(TRUE, has_node, <<op>>, <<>>)
Call2(x, y) ==
  Shape(TRUE, TRUE, <<OPCODE_INVOKE_STATIC, OPCODE_INVOKE_VIRTUAL>>,
        <<Edge(11, x), Edge(12, y)>>)
Multi(x, y) ==
  Shape(TRUE, TRUE, <<OPCODE_INVOKE_VIRTUAL>>, <<Edge(11, x), Edge(11, y)>>)

ShapesA ==
  {NoEdge(OPCODE_INVOKE_STATIC, TRUE), NoEdge(OPCODE_INVOKE_DIRECT, FALSE),
   Call1(OPCODE_INVOKE_SUPER, "B")}
    \cup {Call1(OPCODE_INVOKE_STATIC, x) : x \in Methods}
    \cup {Call2("B", "C"), Multi("B", "C")}

ShapesB ==
  {Leaf, Call1(OPCODE_INVOKE_DIRECT, "A"), Call1(OPCODE_INVOKE_VIRTUAL, "C"),
   Multi("C", "A"),
   Multi("A", "C")}

ShapesC ==
  {NoCode, Leaf, Call1(OPCODE_INVOKE_STATIC, "A"),
   Call1(OPCODE_INVOKE_DIRECT, ObjectInit)}

\* a summary a caller's map may hold for a method before the call
SeededSummary == [effects |-> {EFF_LOCKS}, modified_params |-> {0}]

EmptyMap == [m \in {} |-> Summary]

SeedMenu ==
  {EmptyMap, "B" :> SeededSummary, ObjectInit :> SeededSummary}

WithCode(shapes) == {m \in Methods : shapes[m].has_code}

ScopeMenu(shapes) == {WithCode(shapes), WithCode(shapes) \ {"C"}}

\* whether Object.<init> has code and is in the scope
InitCodeMenu == {FALSE, TRUE}

\* the methods marked no_optimizations
NoOptMenu == {{}, {"B"}}

Programs ==
  {[shapes |-> shapes,
    scope |-> IF init_has_code THEN scope \cup {ObjectInit} ELSE scope,
    seeds |-> seeds, no_opt |-> no_opt, init_has_code |-> init_has_code] :
     <<shapes, scope, seeds, no_opt, init_has_code>> \in
       {<<sh, sc, sd, no, ic>> \in
          [Methods -> ShapesA \cup ShapesB \cup ShapesC]
            \X (SUBSET Methods) \X SeedMenu \X NoOptMenu \X InitCodeMenu :
          /\ sh["A"] \in ShapesA
          /\ sh["B"] \in ShapesB
          /\ sh["C"] \in ShapesC
          /\ sc \in ScopeMenu(sh)
          /\ ObjectInit \in DOMAIN sd =>
               /\ sc = WithCode(sh)
               /\ sh["C"] = Call1(OPCODE_INVOKE_DIRECT, ObjectInit)
          /\ no # {} =>
               /\ sc = WithCode(sh)
               /\ sh["C"] = Leaf
          /\ ic =>
               /\ sc = WithCode(sh)
               /\ sh["C"] = Call1(OPCODE_INVOKE_DIRECT, ObjectInit)
               /\ sh["B"] = Leaf
               /\ "B" \notin DOMAIN sd}}

\* method->get_code() != nullptr
has_code(p, method) ==
  IF method \in Methods THEN p.shapes[method].has_code ELSE p.init_has_code

\* the instructions a method runs besides its invokes
OwnInsns(method) ==
  IF method = "B" THEN <<Insn(2, OPCODE_THROW, <<1>>, {})>>
  ELSE IF method = "C" THEN <<Insn(2, OPCODE_MONITOR_ENTER, <<0>>, {})>>
  ELSE IF method = ObjectInit THEN <<Insn(2, OPCODE_SPUT, <<0>>, {})>>
  ELSE <<>>

\* method->get_code(): one parameter (an object, in v0) and one block
code_of(p, method) ==
  LET params == <<Insn(1, IOPCODE_LOAD_PARAM_OBJECT, <<>>, {0})>>
      ops == IF method \in Methods THEN p.shapes[method].invokes ELSE <<>>
      invokes == [k \in 1 .. Len(ops) |-> Insn(10 + k, ops[k], <<0>>, {})]
  IN [params |-> params,
      blocks |-> <<params \o OwnInsns(method) \o invokes>>]

\* ptrs_fp_iter_map.find(method)->second: the entry states of the blocks
ptrs_of(p, method) == <<EnvTop>>

\* method->rstate.no_optimizations()
no_optimizations(p, method) == method \in p.no_opt

\* call_graph.has_node(method) and call_graph.node(method).callees()
callee_edges(p, method) ==
  IF method \in Methods /\ p.shapes[method].has_node
  THEN p.shapes[method].edges
  ELSE <<>>

(***************************************************************************)
(* analyze_method_recursive, one frame per call that passed the entry      *)
(* check.  pc of a frame: "call" (about to call the callee of the current  *)
(* edge), "ret" (the call returned), "build" (the edges are done).         *)
(***************************************************************************)
EntryReturnsNoVisiting(p, method, visiting, cmap) ==
  \/ method \in DOMAIN cmap
  \/ ~has_code(p, method)

EntryReturnsNoCount(p, method, visiting, cmap) ==
  \/ method \in visiting
  \/ ~has_code(p, method)

\* the entry check: the call returns at once
EntryReturns(p, method, visiting, cmap) ==
  \/ method \in DOMAIN cmap
  \/ method \in visiting
  \/ ~has_code(p, method)

FrameForgetsPath(p, method, visiting) ==
  [method |-> method,
   visiting |-> {method},
   edge |-> 1,
   pc |-> IF callee_edges(p, method) = <<>> THEN "build" ELSE "call",
   invoke_to_summary_cmap |-> EmptyMap]

FrameSkipsEdges(p, method, visiting) ==
  [method |-> method,
   visiting |-> visiting \cup {method},
   edge |-> 1,
   pc |-> "build",
   invoke_to_summary_cmap |-> EmptyMap]

Frame(p, method, visiting) ==
  [method |-> method,
   visiting |-> visiting \cup {method},
   edge |-> 1,
   pc |-> IF callee_edges(p, method) = <<>> THEN "build" ELSE "call",
   invoke_to_summary_cmap |-> EmptyMap]

Top(t) == stack[t][Len(stack[t])]
SetTop(t, f) == [stack EXCEPT ![t][Len(stack[t])] = f]

VisitingArgShared(t) ==
  UNION {stack[u][Len(stack[u])].visiting : u \in {v \in Threads : stack[v] # <<>>}}

\* the visiting set a frame passes to its callee (by value)
VisitingArg(t) == Top(t).visiting

EmplaceOverwriteKeepsOld(map, key, value) ==
  IF key \in DOMAIN map THEN map
  ELSE [k \in DOMAIN map \cup {key} |-> IF k = key THEN value ELSE map[k]]

\* (*map)[key] = value
EmplaceOverwrite(map, key, value) ==
  [k \in DOMAIN map \cup {key} |-> IF k = key THEN value ELSE map[k]]

\* emplace / insert of a map: no effect when the key is present
Emplace(map, key, value) ==
  IF key \in DOMAIN map THEN map
  ELSE [k \in DOMAIN map \cup {key} |-> IF k = key THEN value ELSE map[k]]

\* ConcurrentMap::emplace: atomic, the first writer of a key wins
ConcurrentMapEmplace(cmap, key, value) == Emplace(cmap, key, value)

PublishNothing(cmap, method, summary) == cmap

PublishOverwrite(cmap, method, summary) == EmplaceOverwrite(cmap, method, summary)

\* summary_cmap->emplace(method, summary)
Publish(cmap, method, summary) == ConcurrentMapEmplace(cmap, method, summary)

RecordCalleeOptimistic(inv, cmap, e) ==
  Emplace(inv, e.insn,
          IF e.callee \in DOMAIN cmap THEN cmap[e.callee] ELSE Summary)

\* after the recursive call: the callee's summary, if it has one, is recorded
\* for the edge's invoke instruction (emplace: the first record is kept)
RecordCallee(inv, cmap, e) ==
  IF e.callee \in DOMAIN cmap THEN Emplace(inv, e.insn, cmap[e.callee]) ELSE inv

\* summary_map->insert(pair) for every pair of summary_cmap
InsertAll(map, cmap) ==
  [m \in DOMAIN map \cup DOMAIN cmap |->
     IF m \in DOMAIN map THEN map[m] ELSE cmap[m]]

CopyNothing(map) == EmptyMap

\* SummaryConcurrentMap summary_cmap; summary_cmap.insert(pair) for every
\* pair of *summary_map
CopyToConcurrentMap(map) == InsertAll(EmptyMap, map)

BuildSummaryNoFlag(p, method, inv) ==
  build(inv, ptrs_of(p, method), code_of(p, method))

\* the summary of a frame: build() and the no_optimizations flag
BuildSummary(p, method, inv) ==
  LET summary == build(inv, ptrs_of(p, method), code_of(p, method))
  IN IF no_optimizations(p, method)
     THEN AddEffect(summary, EFF_NO_OPTIMIZE)
     ELSE summary

\* analyze_scope up to the parallel walk
Begin ==
  /\ phase = "start"
  /\ summary_map' = EmplaceOverwrite(summary_map, ObjectInit, SummaryOfParams({0}))
  /\ summary_cmap' = CopyToConcurrentMap(summary_map')
  /\ todo' = prog.scope
  /\ phase' = "walk"
  /\ UNCHANGED <<prog, stack, builder_vars, rest_vars>>

\* walk::parallel::code hands a method of the scope to an idle worker, which
\* calls analyze_method_recursive with an empty visiting set
Take(t) ==
  /\ phase = "walk"
  /\ stack[t] = <<>>
  /\ \E method \in todo :
       /\ todo' = todo \ {method}
       /\ stack' = [stack EXCEPT ![t] =
                      IF EntryReturns(prog, method, {}, summary_cmap) THEN <<>>
                      ELSE <<Frame(prog, method, {})>>]
  /\ UNCHANGED <<prog, phase, summary_map, summary_cmap, builder_vars, rest_vars>>

\* the recursive call for the current edge, up to the callee's entry check
Call(t) ==
  /\ phase = "walk"
  /\ stack[t] # <<>>
  /\ Top(t).pc = "call"
  /\ LET f == Top(t)
         callee == callee_edges(prog, f.method)[f.edge].callee
         waiting == SetTop(t, [f EXCEPT !.pc = "ret"])
     IN IF EntryReturns(prog, callee, VisitingArg(t), summary_cmap)
        THEN stack' = waiting
        ELSE /\ Len(stack[t]) < MaxDepth
             /\ stack' = [waiting EXCEPT ![t] =
                            Append(@, Frame(prog, callee, VisitingArg(t)))]
  /\ UNCHANGED <<prog, phase, summary_map, summary_cmap, todo, builder_vars, rest_vars>>

\* after the recursive call: record the callee's summary, if it has one
Ret(t) ==
  /\ phase = "walk"
  /\ stack[t] # <<>>
  /\ Top(t).pc = "ret"
  /\ LET f == Top(t)
         edges == callee_edges(prog, f.method)
         inv == RecordCallee(f.invoke_to_summary_cmap, summary_cmap, edges[f.edge])
     IN stack' = SetTop(t, [f EXCEPT !.invoke_to_summary_cmap = inv,
                                     !.edge = f.edge + 1,
                                     !.pc = IF f.edge + 1 > Len(edges)
                                            THEN "build" ELSE "call"])
  /\ UNCHANGED <<prog, phase, summary_map, summary_cmap, todo, builder_vars, rest_vars>>

\* SummaryBuilder(...).build(), the no_optimizations flag,
\* summary_cmap->emplace(method, summary), and the return
BuildAndEmplace(t) ==
  /\ phase = "walk"
  /\ stack[t] # <<>>
  /\ Top(t).pc = "build"
  /\ LET f == Top(t)
         summary == BuildSummary(prog, f.method, f.invoke_to_summary_cmap)
     IN summary_cmap' = Publish(summary_cmap, f.method, summary)
  /\ stack' = [stack EXCEPT ![t] = SubSeq(@, 1, Len(@) - 1)]
  /\ UNCHANGED <<prog, phase, summary_map, todo, builder_vars, rest_vars>>

\* the walk is over: summary_map->insert(pair) for every pair of summary_cmap
End ==
  /\ phase = "walk"
  /\ todo = {}
  /\ \A t \in Threads : stack[t] = <<>>
  /\ summary_map' = InsertAll(summary_map, summary_cmap)
  /\ phase' = "done"
  /\ UNCHANGED <<prog, summary_cmap, todo, stack, builder_vars, rest_vars>>

\* an s_expr: a string atom, an int32 atom or a list
SString(str) == [kind |-> "string", str |-> str, int |-> 0, elems |-> <<>>]
SInt(n) == [kind |-> "int32", str |-> <<>>, int |-> n, elems |-> <<>>]
SList(elems) == [kind |-> "list", str |-> <<>>, int |-> 0, elems |-> elems]

\* what Summary::from_s_expr did: returned a Summary (effects as the
\* integer stored), or failed
Returned(effects, modified_params) ==
  [ok |-> TRUE, effects |-> effects, modified_params |-> modified_params]
Failed == [ok |-> FALSE, effects |-> 0, modified_params |-> {}]

SerialIdle ==
  /\ x_pc = "idle"
  /\ x_summary = Summary
  /\ x_expr = SList(<<>>)
  /\ x_result = Failed

\* Transform::Stats
Stats(branches_removed, materialized_consts) ==
  [branches_removed |-> branches_removed,
   materialized_consts |-> materialized_consts]

TransformIdle ==
  /\ t_in = [replace_moves_with_consts |-> TRUE, values |-> <<>>,
             redundant |-> {}, never_taken |-> {}, always_taken |-> {}]
  /\ t_pc = "idle"
  /\ t_code = <<>>
  /\ t_pos = 0
  /\ t_replacement = <<>>
  /\ m_replacements = <<>>
  /\ m_deletes = <<>>
  /\ m_stats = Stats(0, 0)

FinalIdle ==
  /\ f_pc = "idle"
  /\ f_in = [code |-> <<>>, static_values |-> <<>>]
  /\ f_cls = [has_clinit |-> FALSE, code |-> <<>>, static_values |-> <<>>]

RestIdle == SerialIdle /\ TransformIdle /\ FinalIdle

BuilderIdle ==
  /\ b_in = [code |-> [params |-> <<>>, blocks |-> <<>>], ptrs_fp_iter |-> <<>>,
             invoke_to_summary_cmap |-> EmptyMap]
  /\ b_pc = "idle"
  /\ b_block = 0
  /\ b_insn = 0
  /\ b_env = EnvBottom
  /\ b_summary = Summary

Init ==
  /\ prog \in Programs
  /\ phase = "start"
  /\ summary_map = prog.seeds
  /\ summary_cmap = EmptyMap
  /\ todo = {}
  /\ stack = [t \in Threads |-> <<>>]
  /\ BuilderIdle
  /\ RestIdle

Next ==
  \/ Begin
  \/ \E t \in Threads : Take(t)
  \/ \E t \in Threads : Call(t)
  \/ \E t \in Threads : Ret(t)
  \/ \E t \in Threads : BuildAndEmplace(t)
  \/ End

Spec == Init /\ [][Next]_vars

(***************************************************************************)
(* SummaryBuilder::build() step by step, on one code object.  The inputs   *)
(* are a code object (parameter instructions, then one block with the      *)
(* instruction under study and the one after it, then one more block), the *)
(* entry states the pointer analysis gives for the blocks, and the         *)
(* summaries of the invoke instructions.                                   *)
(***************************************************************************)
ParamObject(id, reg) == Insn(id, IOPCODE_LOAD_PARAM_OBJECT, <<>>, {reg})
ParamScalar(id, reg) == Insn(id, IOPCODE_LOAD_PARAM, <<>>, {reg})
ParamWide(id, reg) == Insn(id, IOPCODE_LOAD_PARAM_WIDE, <<>>, {reg})
NewInstance(id, reg) == Insn(id, OPCODE_NEW_INSTANCE, <<>>, {reg})

ParamsMenu ==
  {<<ParamObject(1, 0), ParamScalar(2, 1), ParamObject(3, 2)>>,
   <<ParamWide(1, 0), ParamObject(2, 1)>>}

LocalSite == NewInstance(4, 1)

\* the allocation sites of a code object with these parameters
SitesOf(params) ==
  {params[k] : k \in {j \in DOMAIN params : params[j].op = IOPCODE_LOAD_PARAM_OBJECT}}
    \cup {LocalSite}

\* the instructions put under study
SubjectMenu ==
  {Insn(30, OPCODE_IPUT, <<0, 1>>, {}),
   Insn(30, OPCODE_IPUT_OBJECT, <<0, 1>>, {}),
   Insn(30, OPCODE_APUT, <<0, 1, 2>>, {}),
   Insn(30, OPCODE_APUT_OBJECT, <<0, 1, 2>>, {}),
   Insn(30, OPCODE_FILL_ARRAY_DATA, <<1>>, {}),
   Insn(30, OPCODE_FILL_ARRAY_DATA, <<0>>, {}),
   Insn(30, OPCODE_SPUT_OBJECT, <<1>>, {}),
   Insn(30, OPCODE_THROW, <<1>>, {}),
   Insn(30, OPCODE_MONITOR_EXIT, <<1>>, {}),
   Insn(30, OPCODE_MOVE_OBJECT, <<1>>, {0}),
   Insn(30, OPCODE_INVOKE_STATIC, <<1, 0>>, {}),
   Insn(30, OPCODE_INVOKE_VIRTUAL, <<0, 1>>, {}),
   Insn(30, OPCODE_INVOKE_INTERFACE, <<1, 0>>, {}),
   Insn(30, OPCODE_INVOKE_SUPER, <<0, 1>>, {})}

\* the instruction after it
FollowMenu ==
  {Insn(31, OPCODE_CONST, <<>>, {0}),
   Insn(31, OPCODE_IPUT, <<1, 0>>, {}),
   Insn(31, OPCODE_RETURN_VOID, <<>>, {})}

\* the last block
LastBlockMenu ==
  {<<Insn(40, OPCODE_THROW, <<0>>, {})>>,
   <<Insn(40, OPCODE_IPUT, <<0, 1>>, {}), Insn(41, OPCODE_RETURN_VOID, <<>>, {})>>}

\* the instructions that may follow the one under study
FollowFor(subject) ==
  IF subject.op \in IPutOpcodes THEN FollowMenu
  ELSE {Insn(31, OPCODE_RETURN_VOID, <<>>, {})}

\* the last blocks a code object with this instruction may have
LastBlockFor(subject) ==
  IF subject.op = OPCODE_THROW THEN LastBlockMenu
  ELSE {<<Insn(40, OPCODE_THROW, <<0>>, {})>>}

Code(params, subject, follow, last) ==
  [params |-> params,
   blocks |-> <<params \o <<LocalSite>>, <<subject, follow>>, last>>]

\* the pointer sets of a register
PointerSets(sites) == {PointersTop} \cup {PointersOf(ss) : ss \in SUBSET sites}

\* the entry states of the block under study: v1 holds any pointer set, v0
\* the local allocation or an unknown value, any set of sites may have escaped
EntryStates(sites) ==
  {[bottom |-> FALSE,
    pointers |-> [r \in Regs |-> IF r = 1 THEN p1 ELSE IF r = 0 THEN p0
                                 ELSE PointersTop],
    escaped |-> esc] :
     <<p1, p0, esc>> \in
       PointerSets(sites) \X {PointersTop, PointersOf({LocalSite})}
         \X (SUBSET sites)}

\* the summaries known for the invoke instruction under study
InvokeSummaryMenu ==
  {EmptyMap,
   30 :> [effects |-> {EFF_THROWS}, modified_params |-> {0, 1}],
   30 :> [effects |-> {}, modified_params |-> {1}],
   30 :> [effects |-> {EFF_LOCKS, EFF_UNKNOWN_INVOKE}, modified_params |-> {}]}

\* the summaries the invoke map may hold for a code object
InvokeSummariesFor(subject) ==
  IF subject.op \in ResolvedInvokeOpcodes THEN InvokeSummaryMenu
  ELSE IF subject.op \in UnknownInvokeOpcodes
  THEN {EmptyMap, 30 :> [effects |-> {EFF_THROWS}, modified_params |-> {0, 1}]}
  ELSE {EmptyMap}

CurBlock == b_in.code.blocks[b_block]
CurInsn == CurBlock[b_insn]

\* Summary summary; auto& cfg = m_code->cfg(); the outer loop begins
BuildBegin ==
  /\ b_pc = "start"
  /\ b_summary' = Summary
  /\ b_block' = 1
  /\ b_pc' = "block"
  /\ UNCHANGED <<b_in, b_insn, b_env, driver_vars, rest_vars>>

\* the head of the outer loop: the entry state of the block; a block whose
\* entry state is bottom is skipped
BuildEnterBlock ==
  /\ b_pc = "block"
  /\ b_block <= Len(b_in.code.blocks)
  /\ LET env == get_entry_state_at(b_in.ptrs_fp_iter, b_block)
     IN IF is_bottom(env)
        THEN /\ b_block' = b_block + 1
             /\ UNCHANGED <<b_pc, b_insn, b_env>>
        ELSE /\ b_env' = env
             /\ b_insn' = 1
             /\ b_pc' = "insn"
             /\ UNCHANGED b_block
  /\ UNCHANGED <<b_in, b_summary, driver_vars, rest_vars>>

BuildStepEffectsAfter ==
  /\ b_pc = "insn"
  /\ b_insn <= Len(CurBlock)
  /\ b_env' = analyze_instruction(CurInsn, b_env)
  /\ b_summary' = analyze_instruction_effects(
                    b_in.code, b_in.invoke_to_summary_cmap, b_env', CurInsn,
                    b_summary)
  /\ b_insn' = b_insn + 1
  /\ UNCHANGED <<b_in, b_pc, b_block, driver_vars, rest_vars>>

\* the body of the inner loop: the effects of the instruction in the state
\* before it, then the transfer function of the pointer analysis
BuildStep ==
  /\ b_pc = "insn"
  /\ b_insn <= Len(CurBlock)
  /\ b_summary' = analyze_instruction_effects(
                    b_in.code, b_in.invoke_to_summary_cmap, b_env, CurInsn, b_summary)
  /\ b_env' = analyze_instruction(CurInsn, b_env)
  /\ b_insn' = b_insn + 1
  /\ UNCHANGED <<b_in, b_pc, b_block, driver_vars, rest_vars>>

\* the inner loop ends: on to the next block
BuildNextBlock ==
  /\ b_pc = "insn"
  /\ b_insn > Len(CurBlock)
  /\ b_block' = b_block + 1
  /\ b_pc' = "block"
  /\ UNCHANGED <<b_in, b_insn, b_env, b_summary, driver_vars, rest_vars>>

\* return summary
BuildReturn ==
  /\ b_pc = "block"
  /\ b_block > Len(b_in.code.blocks)
  /\ b_pc' = "done"
  /\ UNCHANGED <<b_in, b_block, b_insn, b_env, b_summary, driver_vars, rest_vars>>

DriverIdle ==
  /\ prog = [shapes |-> [m \in Methods |-> NoCode], scope |-> {},
             seeds |-> EmptyMap, no_opt |-> {}, init_has_code |-> FALSE]
  /\ phase = "idle"
  /\ summary_map = EmptyMap
  /\ summary_cmap = EmptyMap
  /\ todo = {}
  /\ stack = [t \in Threads |-> <<>>]

InitBuild ==
  /\ DriverIdle
  /\ RestIdle
  /\ \E params \in ParamsMenu : \E subject \in SubjectMenu :
       \E follow \in FollowFor(subject) : \E last \in LastBlockFor(subject) :
         \E entry \in EntryStates(SitesOf(params)) :
           \E last_entry \in {EnvBottom, EnvTop} :
             \E inv \in InvokeSummariesFor(subject) :
               b_in = [code |-> Code(params, subject, follow, last),
                       ptrs_fp_iter |-> <<EnvTop, entry, last_entry>>,
                       invoke_to_summary_cmap |-> inv]
  /\ b_pc = "start"
  /\ b_block = 0
  /\ b_insn = 0
  /\ b_env = EnvBottom
  /\ b_summary = Summary

NextBuild ==
  \/ BuildBegin
  \/ BuildEnterBlock
  \/ BuildStep
  \/ BuildNextBlock
  \/ BuildReturn

SpecBuild == InitBuild /\ [][NextBuild]_vars

\* every worker that can take a step eventually takes one
SpecFair == Spec /\ WF_vars(Next)

(***************************************************************************)
(* Properties of the driver.                                               *)
(***************************************************************************)
FrameMethods(t) == {stack[t][k].method : k \in 1 .. Len(stack[t])}

\* the call graph has an edge from x to y
EdgeTo(p, x, y) ==
  \E i \in DOMAIN callee_edges(p, x) : callee_edges(p, x)[i].callee = y

\* the callees the call graph gives for invoke instruction id of method x
CalleesOf(p, x, id) ==
  {callee_edges(p, x)[i].callee :
     i \in {j \in DOMAIN callee_edges(p, x) : callee_edges(p, x)[j].insn = id}}

\* the instructions of the blocks of a code object
InsnsOf(code) ==
  UNION {{code.blocks[b][i] : i \in DOMAIN code.blocks[b]} : b \in DOMAIN code.blocks}

\* x calls y through a static/direct/virtual invoke that resolves to y
CallsResolved(p, x, y) ==
  /\ has_code(p, x)
  /\ \E insn \in InsnsOf(code_of(p, x)) :
       /\ insn.op \in ResolvedInvokeOpcodes
       /\ CalleesOf(p, x, insn.id) = {y}

MutuallyRecursive(p, x, y) ==
  /\ x # y
  /\ has_code(p, x) /\ has_code(p, y)
  /\ x \notin DOMAIN p.seeds /\ y \notin DOMAIN p.seeds
  /\ CallsResolved(p, x, y) /\ CallsResolved(p, y, x)

\* C1: analyze_scope terminates on every call graph, recursive ones
\* included, whatever the interleaving of the workers: every call of
\* analyze_method_recursive returns and the walk ends.
C1_Terminates == <>(phase = "done")

C1_Witness ==
  /\ phase = "done"
  /\ \E x \in prog.scope : \E y \in prog.scope :
       MutuallyRecursive(prog, x, y)

RECURSIVE ReachClosure(_, _)
\* the methods reached from the set `from` through the edges that leave a
\* method of `through`
ReachClosure(from, through) ==
  LET more == from \cup
        UNION {{y \in AllMethods : EdgeTo(prog, x, y)} : x \in from \cap through}
  IN IF more = from THEN from ELSE ReachClosure(more, through)

\* reachable from a method of the scope through call-graph edges
Reachable == ReachClosure(prog.scope, AllMethods)

\* reachable from a method of the scope through the edges of methods that
\* have code and no summary when the walk starts
Explored ==
  ReachClosure(prog.scope,
               {m \in Methods : has_code(prog, m) /\ m \notin DOMAIN prog.seeds})

\* C3 as claimed: when analyze_scope returns, every method with code that is
\* in the scope or reachable from it through call-graph edges has a summary.
C3_Original ==
  phase = "done" =>
    \A m \in AllMethods :
      (has_code(prog, m) /\ m \in Reachable) => m \in DOMAIN summary_map

\* C3, amended: when analyze_scope returns, every method with code has a
\* summary if it is in the scope or reachable from it along call-graph edges
\* that leave methods with code and without a pre-seeded summary (the
\* callees of a pre-seeded method are not explored on its behalf).
C3_ExploredComplete ==
  phase = "done" =>
    \A m \in AllMethods :
      (has_code(prog, m) /\ m \in Explored) => m \in DOMAIN summary_map

C3_Witness ==
  /\ phase = "done"
  /\ \E m \in Methods :
       /\ has_code(prog, m)
       /\ m \in Explored \ prog.scope
       /\ m \in DOMAIN summary_map

\* the call graph gives no callee with a summary for this invoke instruction
NoSummaryAvailable(p, method, insn, cmap) ==
  CalleesOf(p, method, insn.id) \cap DOMAIN cmap = {}

C5_WriteOnce ==
  [][\A m \in DOMAIN summary_cmap :
       /\ m \in DOMAIN summary_cmap'
       /\ summary_cmap'[m] = summary_cmap[m]]_vars

C5_Witness ==
  \E t \in Threads :
    /\ stack[t] # <<>>
    /\ Top(t).pc = "build"
    /\ Top(t).method \in DOMAIN summary_cmap
    /\ summary_cmap[Top(t).method] #
         BuildSummary(prog, Top(t).method, Top(t).invoke_to_summary_cmap)

\* C6 as claimed: no two worker threads are between the entry check and the
\* insert of analyze_method_recursive for the same method.
C6_Original ==
  \A t \in Threads : \A u \in Threads :
    t # u => FrameMethods(t) \cap FrameMethods(u) = {}

\* C6, amended: a thread starts analyzing a method (passes the entry check)
\* only while the summary map has no entry for it; two threads that both
\* pass the check before either inserts do analyze the method concurrently.
C6_StartOnlyUnpublished ==
  [][\A t \in Threads :
       Len(stack'[t]) > Len(stack[t]) =>
         stack'[t][Len(stack'[t])].method \notin DOMAIN summary_cmap]_vars

C6_Witness ==
  \E t \in Threads : \E u \in Threads :
    /\ t # u
    /\ stack[t] # <<>> /\ stack[u] # <<>>
    /\ Top(t).method = Top(u).method
    /\ Top(t).method \notin DOMAIN summary_cmap

\* C7: the visiting set of every call is the set of methods on that thread's
\* own recursion path: after visiting.insert, the methods of the frames up to
\* and including the call's own.
C7_VisitingIsPath ==
  \A t \in Threads : \A k \in 1 .. Len(stack[t]) :
    stack[t][k].visiting = {stack[t][j].method : j \in 1 .. k}

C7_Witness ==
  \E t \in Threads : \E u \in Threads :
    /\ t # u
    /\ Len(stack[t]) >= 2
    /\ stack[t][1].edge = 2
    /\ stack[u] # <<>>
    /\ Top(u).visiting \cap Top(t).visiting = {}

(***************************************************************************)
(* Properties of the summary builder.                                      *)
(***************************************************************************)
IsHeapWrite(insn) ==
  insn.op \in IPutOpcodes \cup APutOpcodes \cup {OPCODE_FILL_ARRAY_DATA}

\* this step of build() handles a heap write
HeapWriteStep ==
  /\ b_pc = "insn"
  /\ b_insn <= Len(CurBlock)
  /\ IsHeapWrite(CurInsn)
  /\ b_insn' = b_insn + 1

\* what the register written through points to, before the instruction:
\* the second source of a field or array put, the first of fill-array-data
WrittenPointers ==
  b_env.pointers[IF CurInsn.op = OPCODE_FILL_ARRAY_DATA
                 THEN CurInsn.srcs[1] ELSE CurInsn.srcs[2]]

EscapedSites == WrittenPointers.elements \cap b_env.escaped

\* the positions, from 0, of the non-escaped load-param-object sites of the
\* pointer set among the parameter instructions
NonEscapedParamIndices ==
  {k - 1 : k \in {j \in DOMAIN b_in.code.params :
                    /\ b_in.code.params[j] \in WrittenPointers.elements \ b_env.escaped
                    /\ b_in.code.params[j].op = IOPCODE_LOAD_PARAM_OBJECT}}

\* C8: a heap write sets escaping-write if and only if the pointer written
\* through (src(1) of a field or array put, src(0) of fill-array-data) is
\* not a known set of allocation sites or one of its sites may have escaped;
\* it sets no other effect.
C8_EscapingWriteIff ==
  [][HeapWriteStep =>
       b_summary'.effects =
         b_summary.effects \cup
           (IF ~WrittenPointers.is_value \/ EscapedSites # {}
            THEN {EFF_WRITE_MAY_ESCAPE} ELSE {})]_vars

\* the instruction build() handled last, and the state it was handled in
\* when the pointer analysis leaves the state as it is
PrevInsn == CurBlock[b_insn - 1]
AfterSubject == b_pc = "insn" /\ b_block = 2 /\ b_insn = 2

C8_Witness ==
  /\ AfterSubject
  /\ PrevInsn.op = OPCODE_APUT
  /\ b_env.pointers[1].is_value
  /\ b_env.pointers[1].elements \cap b_env.escaped # {}
  /\ ~b_env.pointers[0].is_value
  /\ EFF_WRITE_MAY_ESCAPE \in b_summary.effects

C10_NonEscapedParamsRecorded ==
  [][(HeapWriteStep /\ WrittenPointers.is_value /\ EscapedSites = {}) =>
       /\ b_summary'.modified_params =
            b_summary.modified_params \cup NonEscapedParamIndices
       /\ b_summary'.effects = b_summary.effects]_vars

C10_Witness ==
  /\ AfterSubject
  /\ PrevInsn.op = OPCODE_FILL_ARRAY_DATA
  /\ PrevInsn.srcs = <<1>>
  /\ b_env.pointers[1].is_value
  /\ LocalSite \in b_env.pointers[1].elements
  /\ b_env.pointers[1].elements \cap b_env.escaped = {}
  /\ Cardinality(b_env.pointers[1].elements) = 3
  /\ b_summary = [effects |-> {}, modified_params |-> {0, 2}]

\* this step of build() handles a static/direct/virtual invoke whose callee
\* summary is in the invoke map
ResolvedInvokeStep ==
  /\ b_pc = "insn"
  /\ b_insn <= Len(CurBlock)
  /\ CurInsn.op \in ResolvedInvokeOpcodes
  /\ CurInsn.id \in DOMAIN b_in.invoke_to_summary_cmap
  /\ b_insn' = b_insn + 1

CalleeSummary == b_in.invoke_to_summary_cmap[CurInsn.id]

\* what the i-th source register of the invoke points to, before the invoke
ArgPointers(i) == b_env.pointers[CurInsn.srcs[i + 1]]

\* the positions, from 0, among the parameter instructions of the
\* non-escaped load-param-object sites of a pointer set
ParamIndicesOf(ptrs) ==
  {k - 1 : k \in {j \in DOMAIN b_in.code.params :
                    /\ ptrs.is_value
                    /\ b_in.code.params[j] \in ptrs.elements \ b_env.escaped
                    /\ b_in.code.params[j].op = IOPCODE_LOAD_PARAM_OBJECT}}

\* C11: a static/direct/virtual invoke whose callee summary is available adds
\* every effect of the callee summary to the caller's effects, and for each
\* index i of the callee's modified_params classifies the pointer in the
\* invoke's i-th source register as a heap write in the caller's state: top
\* or an escaped site sets escaping-write, a non-escaped caller parameter
\* adds the caller parameter's index, a non-escaped local site adds nothing.
C11_ResolvedInvokeReclassified ==
  [][ResolvedInvokeStep =>
       /\ b_summary'.effects =
            b_summary.effects \cup CalleeSummary.effects \cup
              (IF \E i \in CalleeSummary.modified_params :
                    \/ ~ArgPointers(i).is_value
                    \/ ArgPointers(i).elements \cap b_env.escaped # {}
               THEN {EFF_WRITE_MAY_ESCAPE} ELSE {})
       /\ b_summary'.modified_params =
            b_summary.modified_params \cup
              UNION {ParamIndicesOf(ArgPointers(i)) :
                       i \in CalleeSummary.modified_params}]_vars

C11_Witness ==
  /\ AfterSubject
  /\ PrevInsn.op = OPCODE_INVOKE_STATIC
  /\ 30 \in DOMAIN b_in.invoke_to_summary_cmap
  /\ b_in.invoke_to_summary_cmap[30].modified_params = {1}
  /\ b_in.ptrs_fp_iter[2].pointers[0] = PointersOf({LocalSite})
  /\ b_in.ptrs_fp_iter[2].pointers[1].is_value
  /\ b_in.ptrs_fp_iter[2].pointers[1].elements # {}
  /\ b_in.ptrs_fp_iter[2].escaped = {}
  /\ b_summary = Summary

\* C12: a method marked no_optimizations that the driver builds a summary
\* for has the no-optimize effect in the summary that is published and in
\* the output map, whatever its instructions and its callees contribute.
C12_NoOptimizeFlagged ==
  \A m \in Methods :
    (no_optimizations(prog, m) /\ m \notin DOMAIN prog.seeds) =>
      /\ m \in DOMAIN summary_cmap => EFF_NO_OPTIMIZE \in summary_cmap[m].effects
      /\ m \in DOMAIN summary_map => EFF_NO_OPTIMIZE \in summary_map[m].effects

C12_Witness ==
  /\ phase = "done"
  /\ \E m \in Methods :
       /\ no_optimizations(prog, m)
       /\ m \notin DOMAIN prog.seeds
       /\ callee_edges(prog, m) # <<>>
       /\ m \in DOMAIN summary_map
       /\ EFF_NO_OPTIMIZE \in summary_map[m].effects
       /\ EFF_UNKNOWN_INVOKE \in summary_map[m].effects

\* C13: after analyze_scope the summary of Object.<init> is no effects and
\* modified_params = {0}, whatever the caller's map held for it and whether
\* or not it has code in the scope; no worker ever analyzes it.
C13_ObjectInitSummary ==
  /\ \A t \in Threads : ObjectInit \notin FrameMethods(t)
  /\ phase = "done" =>
       /\ ObjectInit \in DOMAIN summary_map
       /\ summary_map[ObjectInit] = [effects |-> {}, modified_params |-> {0}]

C13_Witness ==
  /\ phase = "done"
  /\ has_code(prog, ObjectInit)
  /\ ObjectInit \in prog.scope
  /\ ObjectInit \in DOMAIN prog.seeds
  /\ prog.seeds[ObjectInit] # [effects |-> {}, modified_params |-> {0}]
  /\ summary_map[ObjectInit] = [effects |-> {}, modified_params |-> {0}]

\* the summaries the caller's map holds before the call, Object.<init> aside
Seeded == DOMAIN prog.seeds \ {ObjectInit}

\* C14: a method that has a summary in the input map is never analyzed (so
\* its callees are not explored on its behalf) and keeps that summary in the
\* concurrent map and in the output map, Object.<init> excepted; a call for
\* a method without code, or for one already on the recursion path, starts
\* no analysis and leaves the maps as they are.
C14_SeededPreserved ==
  /\ \A t \in Threads :
       /\ FrameMethods(t) \cap Seeded = {}
       /\ \A k \in 1 .. Len(stack[t]) :
            /\ has_code(prog, stack[t][k].method)
            /\ \A j \in 1 .. (k - 1) : stack[t][j].method # stack[t][k].method
  /\ \A m \in Seeded :
       /\ m \in DOMAIN summary_map /\ summary_map[m] = prog.seeds[m]
       /\ phase \in {"walk", "done"} =>
            m \in DOMAIN summary_cmap /\ summary_cmap[m] = prog.seeds[m]
  /\ \A m \in DOMAIN summary_cmap :
       m \in Seeded \cup {ObjectInit} \/ has_code(prog, m)

C14_Witness ==
  /\ phase = "done"
  /\ \E m \in Seeded :
       /\ has_code(prog, m)
       /\ m \in prog.scope
       /\ callee_edges(prog, m) # <<>>
       /\ \E x \in prog.scope : x # m /\ EdgeTo(prog, x, m)
       /\ summary_map[m] = prog.seeds[m]
       /\ summary_map[m] # BuildSummary(prog, m, EmptyMap)

(***************************************************************************)
(* Serialization of a Summary: to_s_expr and Summary::from_s_expr.  A      *)
(* string is a sequence of characters.                                     *)
(***************************************************************************)
\* the value of an effect in the bitset summary.effects
EffectBit(eff) ==
  CASE eff = EFF_THROWS -> 1
    [] eff = EFF_LOCKS -> 2
    [] eff = EFF_WRITE_MAY_ESCAPE -> 4
    [] eff = EFF_UNKNOWN_INVOKE -> 8
    [] eff = EFF_NO_OPTIMIZE -> 16

RECURSIVE EffectsValue(_)
\* summary.effects as the integer it is stored as
EffectsValue(effs) ==
  IF effs = {} THEN 0
  ELSE LET eff == CHOOSE e \in effs : TRUE
       IN EffectBit(eff) + EffectsValue(effs \ {eff})

\* the effects whose bits are set in an integer
EffectsOfValue(n) == {eff \in Effects : (n \div EffectBit(eff)) % 2 = 1}

DigitChars == <<"0", "1", "2", "3", "4", "5", "6", "7", "8", "9">>
IsDigit(c) == \E d \in 1 .. 10 : DigitChars[d] = c
DigitValue(c) == (CHOOSE d \in 1 .. 10 : DigitChars[d] = c) - 1

to_string_units(n) == <<DigitChars[(n % 10) + 1]>>

RECURSIVE to_string(_)
\* std::to_string of an unsigned value: its decimal digits
to_string(n) ==
  IF n < 10 THEN <<DigitChars[n + 1]>>
  ELSE Append(to_string(n \div 10), DigitChars[(n % 10) + 1])

RECURSIVE SkipSpace(_, _)
\* the index of the first character of str, from i, that is not a space
SkipSpace(str, i) ==
  IF i <= Len(str) /\ str[i] = " " THEN SkipSpace(str, i + 1) ELSE i

\* the largest magnitude that can take one more digit d and stay an int
MaxBefore(negative, d) ==
  IF negative /\ d > 0 THEN (2147483647 - (d - 1)) \div 10
  ELSE IF negative THEN 2147483647 \div 10
  ELSE (2147483647 - d) \div 10

RECURSIVE ReadDigits(_, _, _, _)
\* the digits of str from index i: minus the magnitude they spell, whether
\* it fits an int, and the index after them
ReadDigits(str, i, negative, acc) ==
  IF i <= Len(str) /\ IsDigit(str[i])
  THEN IF (0 - acc) > MaxBefore(negative, DigitValue(str[i]))
       THEN [fits |-> FALSE, minus |-> 0, next |-> i + 1]
       ELSE ReadDigits(str, i + 1, negative, 10 * acc - DigitValue(str[i]))
  ELSE [fits |-> TRUE, minus |-> acc, next |-> i]

\* std::stoi(str): leading spaces, an optional sign, then as many digits as
\* there are; what follows the digits is ignored.  It throws when there is
\* no digit or when the value does not fit an int.
stoi(str) ==
  LET i == SkipSpace(str, 1)
      signed == i <= Len(str) /\ str[i] \in {"-", "+"}
      negative == signed /\ str[i] = "-"
      j == IF signed THEN i + 1 ELSE i
      r == ReadDigits(str, j, negative, 0)
  IN IF r.next = j \/ ~r.fits THEN [ok |-> FALSE, value |-> 0]
     ELSE [ok |-> TRUE, value |-> IF negative THEN r.minus ELSE 0 - r.minus]

is_string(e) == e.kind = "string"
is_list(e) == e.kind = "list"
is_int32(e) == e.kind = "int32"

\* to_s_expr(summary); order is the order in which the loop meets the
\* elements of summary.modified_params
to_s_expr(summary, order) ==
  SList(<<SString(to_string(EffectsValue(summary.effects))),
          SList([k \in DOMAIN order |-> SInt(order[k])])>>)

\* the conversion of get_int32()'s value to param_idx_t (uint16_t)
ToParamIdx(n) == n % 65536

\* Summary::from_s_expr(expr)
from_s_expr(expr) ==
  IF ~is_list(expr) \/ Len(expr.elems) # 2 THEN Failed
  ELSE IF ~is_string(expr.elems[1]) THEN Failed
  ELSE IF ~stoi(expr.elems[1].str).ok THEN Failed
  ELSE IF ~is_list(expr.elems[2]) THEN Failed
  ELSE IF \E i \in DOMAIN expr.elems[2].elems : ~is_int32(expr.elems[2].elems[i])
    THEN Failed
  ELSE Returned(stoi(expr.elems[1].str).value,
                {ToParamIdx(expr.elems[2].elems[i].int) :
                   i \in DOMAIN expr.elems[2].elems})

\* the orders in which a set can be met
Orders(set) ==
  {order \in [1 .. Cardinality(set) -> set] :
     \A i \in DOMAIN order : \A j \in DOMAIN order : order[i] = order[j] => i = j}

ParamIdxMenu == {0, 1, 65535}

\* the summaries that are serialized
SummaryMenu ==
  {[effects |-> effs, modified_params |-> ps] :
     effs \in SUBSET Effects, ps \in SUBSET ParamIdxMenu}

\* the strings and the lists an s_expr read from a cache may hold
StringMenu ==
  {<<>>, <<"7">>, <<"1", "2">>, <<"7", "x">>, <<"x", "7">>, <<" ", "7">>,
   <<"-", "1">>, <<"+", "3">>, <<"-">>,
   <<"4", "2", "9", "4", "9", "6", "7", "2", "9", "6">>}

IndexListMenu ==
  {SList(<<>>), SList(<<SInt(0)>>), SList(<<SInt(1), SInt(0 - 1)>>),
   SList(<<SInt(0), SString(<<"1">>)>>), SList(<<SList(<<>>)>>),
   SString(<<"0">>), SInt(0)}

\* the s_exprs that are parsed
ExprMenu ==
  {SList(<<first, second>>) :
     first \in {SString(str) : str \in StringMenu} \cup {SInt(7), SList(<<>>)},
     second \in IndexListMenu}
    \cup {SList(<<>>), SList(<<SString(<<"7">>)>>),
          SList(<<SString(<<"7">>), SList(<<>>), SList(<<>>)>>),
          SString(<<"7">>), SInt(7)}

\* to_s_expr(x_summary)
Serialize ==
  /\ x_pc = "summary"
  /\ \E order \in Orders(x_summary.modified_params) :
       x_expr' = to_s_expr(x_summary, order)
  /\ x_pc' = "expr"
  /\ UNCHANGED <<x_summary, x_result, driver_vars, builder_vars, transform_vars,
                 final_vars>>

\* Summary::from_s_expr(x_expr)
Parse ==
  /\ x_pc = "expr"
  /\ x_result' = from_s_expr(x_expr)
  /\ x_pc' = "parsed"
  /\ UNCHANGED <<x_summary, x_expr, driver_vars, builder_vars, transform_vars,
                 final_vars>>

\* either a Summary to serialize and parse back, or an s_expr to parse
InitSerial ==
  /\ DriverIdle
  /\ BuilderIdle
  /\ TransformIdle
  /\ FinalIdle
  /\ x_result = Failed
  /\ \/ /\ x_pc = "summary"
        /\ x_summary \in SummaryMenu
        /\ x_expr = SList(<<>>)
     \/ /\ x_pc = "expr"
        /\ x_summary = Summary
        /\ x_expr \in ExprMenu

NextSerial ==
  \/ Serialize
  \/ Parse

SpecSerial == InitSerial /\ [][NextSerial]_vars

\* C15: Summary::from_s_expr(to_s_expr(s)) returns a Summary with the
\* effects and the modified_params of s, for every combination of effects
\* and every set of parameter indices, in whatever order the indices are
\* written.
C15_RoundTrip ==
  [][(x_pc = "expr" /\ x_pc' = "parsed"
        /\ \E order \in Orders(x_summary.modified_params) :
             x_expr = to_s_expr(x_summary, order)) =>
       /\ x_result'.ok
       /\ EffectsOfValue(x_result'.effects) = x_summary.effects
       /\ x_result'.effects = EffectsValue(x_summary.effects)
       /\ x_result'.modified_params = x_summary.modified_params]_vars

C15_Witness ==
  /\ x_pc = "parsed"
  /\ x_summary.effects = Effects
  /\ x_summary.modified_params = ParamIdxMenu
  /\ x_expr.elems[1].str = <<"3", "1">>
  /\ x_expr.elems[2].elems[1].int = 65535
  /\ x_result = Returned(31, ParamIdxMenu)

\* a string that spells a decimal integer: digits, after an optional sign
IsDecimalInteger(str) ==
  LET first == IF str # <<>> /\ str[1] \in {"-", "+"} THEN 2 ELSE 1
  IN /\ first <= Len(str)
     /\ \A i \in first .. Len(str) : IsDigit(str[i])

\* a list of two elements: a string that spells a decimal integer, then a
\* list of integers
WellFormed(expr) ==
  /\ is_list(expr)
  /\ Len(expr.elems) = 2
  /\ is_string(expr.elems[1])
  /\ IsDecimalInteger(expr.elems[1].str)
  /\ is_list(expr.elems[2])
  /\ \A i \in DOMAIN expr.elems[2].elems : is_int32(expr.elems[2].elems[i])

\* C16: Summary::from_s_expr fails, and returns no Summary, for every input
\* whose top-level list does not have exactly two elements, whose first
\* element is not a decimal integer, or whose second element is not a list
\* of integers only.
C16_RejectsMalformed ==
  (x_pc = "parsed" /\ ~WellFormed(x_expr)) => ~x_result.ok

(***************************************************************************)
(* Constant propagation: value_to_instruction_visitor and Transform        *)
(* (opt/constant-propagation/ConstantPropagationTransform.h).              *)
(***************************************************************************)
OPCODE_CONST_WIDE == "const-wide"
OPCODE_CONST_STRING == "const-string"
IOPCODE_MOVE_RESULT_PSEUDO_OBJECT == "move-result-pseudo-object"
OPCODE_MOVE == "move"
OPCODE_MOVE_WIDE == "move-wide"
OPCODE_ADD_INT_LIT8 == "add-int/lit8"
OPCODE_SGET == "sget"
OPCODE_GOTO == "goto"
IOPCODE_MOVE_RESULT_PSEUDO == "move-result-pseudo"

\* an IRInstruction with its literal, string and field operands
CpInsn(id, op, dest, srcs, literal, string, field) ==
  [id |-> id, op |-> op, dest |-> dest, srcs |-> srcs, literal |-> literal,
   string |-> string, field |-> field, target |-> ""]

\* new IRInstruction(op)
NewInsn(op) == CpInsn(0, op, {}, <<>>, 0, "", "")
set_literal(insn, literal) == [insn EXCEPT !.literal = literal]
set_string(insn, string) == [insn EXCEPT !.string = string]
set_dest(insn, dest) == [insn EXCEPT !.dest = dest]

\* IRInstruction::dest_is_wide
WideDestOpcodes == {OPCODE_MOVE_WIDE, OPCODE_CONST_WIDE}
dest_is_wide(insn) == insn.op \in WideDestOpcodes

\* a ConstantValue: a domain of one kind that is bottom, top, one exact
\* constant, or (signed integers) a range of several values
SignedConstantDomain(state, literal) ==
  [kind |-> "signed", state |-> state, literal |-> literal, string |-> ""]
StringDomain(state, string) ==
  [kind |-> "string", state |-> state, literal |-> 0, string |-> string]
ObjectDomain(state) ==
  [kind |-> "object", state |-> state, literal |-> 0, string |-> ""]

\* dom.get_constant(): the constant, if the domain holds exactly one
get_constant(dom) ==
  IF dom.state = "constant"
  THEN [some |-> TRUE, literal |-> dom.literal, string |-> dom.string]
  ELSE [some |-> FALSE, literal |-> 0, string |-> ""]

value_to_instruction_visitor_never_wide(m_original, dom) ==
  IF dom.kind = "signed" /\ get_constant(dom).some
  THEN <<set_dest(set_literal(NewInsn(OPCODE_CONST), get_constant(dom).literal),
                  m_original.dest)>>
  ELSE IF dom.kind = "string" /\ get_constant(dom).some
  THEN <<set_string(NewInsn(OPCODE_CONST_STRING), get_constant(dom).string),
         set_dest(NewInsn(IOPCODE_MOVE_RESULT_PSEUDO_OBJECT), m_original.dest)>>
  ELSE <<>>

\* value_to_instruction_visitor(original) applied to a ConstantValue
value_to_instruction_visitor(m_original, dom) ==
  IF dom.kind = "signed"
  THEN LET cst == get_constant(dom)
       IN IF ~cst.some THEN <<>>
          ELSE <<set_dest(
                   set_literal(
                     NewInsn(IF dest_is_wide(m_original)
                             THEN OPCODE_CONST_WIDE ELSE OPCODE_CONST),
                     cst.literal),
                   m_original.dest)>>
  ELSE IF dom.kind = "string"
  THEN LET cst == get_constant(dom)
       IN IF ~cst.some THEN <<>>
          ELSE <<set_string(NewInsn(OPCODE_CONST_STRING), cst.string),
                 set_dest(NewInsn(IOPCODE_MOVE_RESULT_PSEUDO_OBJECT),
                          m_original.dest)>>
  ELSE <<>>

\* simplify_instruction: the instructions that may become a constant-load
EligibleForConst(config, insn) ==
  \/ insn.op = OPCODE_ADD_INT_LIT8
  \/ insn.op = IOPCODE_MOVE_RESULT_PSEUDO
  \/ /\ insn.op \in {OPCODE_MOVE, OPCODE_MOVE_WIDE, OPCODE_MOVE_OBJECT}
     /\ config.replace_moves_with_consts

\* the instruction a replacement is queued for: the primary instruction of
\* a move-result-pseudo, the instruction itself otherwise
ReplacedInsn(code, pos) ==
  IF code[pos].op = IOPCODE_MOVE_RESULT_PSEUDO /\ pos > 1
  THEN code[pos - 1].id ELSE code[pos].id

ScanDoneAfterFirst(code, pos) == pos > 1

\* the scan has passed every instruction of the code
ScanDone(code, pos) == pos > Len(code)

\* the replacement queued last for an instruction
ReplacementOf(replacements, id) ==
  LET ks == {k \in DOMAIN replacements : replacements[k].insn = id}
  IN replacements[CHOOSE k \in ks : \A j \in ks : j <= k].replacement

RECURSIVE Rewrite(_, _, _, _)
\* the instruction stream from index i with the queued edits applied
Rewrite(code, i, replacements, deletes) ==
  IF i > Len(code) THEN <<>>
  ELSE (IF \E k \in DOMAIN deletes : deletes[k] = code[i].id THEN <<>>
        ELSE IF /\ code[i].op = IOPCODE_MOVE_RESULT_PSEUDO
                /\ i > 1
                /\ \E k \in DOMAIN replacements :
                     replacements[k].insn = code[i - 1].id
          THEN <<>>
        ELSE IF \E k \in DOMAIN replacements : replacements[k].insn = code[i].id
          THEN ReplacementOf(replacements, code[i].id)
        ELSE <<code[i]>>)
       \o Rewrite(code, i + 1, replacements, deletes)

\* Transform::apply_changes
apply_changes(code, replacements, deletes) ==
  Rewrite(code, 1, replacements, deletes)

\* the abstract values the analysis may prove for a destination register
ValueMenu ==
  {SignedConstantDomain("bottom", 0), SignedConstantDomain("top", 0),
   SignedConstantDomain("range", 0), SignedConstantDomain("constant", 0),
   SignedConstantDomain("constant", 0 - 1), SignedConstantDomain("constant", 7),
   StringDomain("bottom", ""), StringDomain("top", ""),
   StringDomain("constant", "s"), ObjectDomain("constant")}

NoValue == SignedConstantDomain("top", 0)

\* the first instruction of the code and what the analysis proves for it
FirstInsnMenu ==
  {CpInsn(1, OPCODE_MOVE, {0}, <<1>>, 0, "", ""),
   CpInsn(1, OPCODE_MOVE_WIDE, {0}, <<2>>, 0, "", ""),
   CpInsn(1, OPCODE_MOVE_OBJECT, {0}, <<1>>, 0, "", ""),
   CpInsn(1, OPCODE_ADD_INT_LIT8, {0}, <<1>>, 1, "", ""),
   CpInsn(1, OPCODE_CONST, {0}, <<>>, 5, "", ""),
   CpInsn(1, OPCODE_SPUT, {}, <<1>>, 0, "", "LFoo;.bar:I")}

FirstValuesFor(insn) ==
  IF insn.op \in {OPCODE_CONST, OPCODE_SPUT} THEN {NoValue} ELSE ValueMenu

\* the second instruction
SecondInsnMenu ==
  {CpInsn(2, OPCODE_SPUT, {}, <<0>>, 0, "", "LFoo;.bar:I"),
   CpInsn(2, OPCODE_MOVE, {1}, <<0>>, 0, "", "")}

SecondValuesFor(insn) ==
  IF insn.op = OPCODE_SPUT THEN {NoValue}
  ELSE {SignedConstantDomain("top", 0), SignedConstantDomain("constant", 7),
        StringDomain("constant", "s")}

\* the puts that write what the field is known to hold already
RedundantFor(code) ==
  SUBSET {code[i].id : i \in {j \in DOMAIN code : code[j].op \in SPutOpcodes}}

\* one step of the scan: simplify_instruction on the instruction at t_pos.
\* replace_with_const queues the visitor's list for an eligible instruction
\* when the list is not empty; eliminate_redundant_put queues the deletion
\* of a redundant put.  The instruction stream is left as it is.
ScanInsn ==
  /\ t_pc = "scan"
  /\ ~ScanDone(t_code, t_pos)
  /\ LET insn == t_code[t_pos]
         replacement == value_to_instruction_visitor(insn, t_in.values[t_pos])
     IN IF EligibleForConst(t_in, insn)
        THEN /\ t_replacement' = replacement
             /\ IF replacement = <<>>
                THEN UNCHANGED <<m_replacements, m_stats>>
                ELSE /\ m_replacements' =
                          Append(m_replacements,
                                 [insn |-> ReplacedInsn(t_code, t_pos),
                                  replacement |-> replacement])
                     /\ m_stats' = Stats(m_stats.branches_removed,
                                         m_stats.materialized_consts + 1)
             /\ UNCHANGED m_deletes
        ELSE IF insn.op \in SPutOpcodes /\ insn.id \in t_in.redundant
        THEN /\ m_deletes' = Append(m_deletes, insn.id)
             /\ UNCHANGED <<t_replacement, m_replacements, m_stats>>
        ELSE IF insn.id \in t_in.never_taken
        THEN /\ m_deletes' = Append(m_deletes, insn.id)
             /\ m_stats' = Stats(m_stats.branches_removed + 1,
                                 m_stats.materialized_consts)
             /\ UNCHANGED <<t_replacement, m_replacements>>
        ELSE IF insn.id \in t_in.always_taken
        THEN /\ m_replacements' =
                  Append(m_replacements,
                         [insn |-> insn.id,
                          replacement |->
                            <<[NewInsn(OPCODE_GOTO)
                                 EXCEPT !.target = insn.target]>>])
             /\ m_stats' = Stats(m_stats.branches_removed + 1,
                                 m_stats.materialized_consts)
             /\ UNCHANGED <<t_replacement, m_deletes>>
        ELSE UNCHANGED <<t_replacement, m_replacements, m_deletes, m_stats>>
  /\ t_pos' = t_pos + 1
  /\ UNCHANGED <<t_in, t_pc, t_code, driver_vars, builder_vars, serial_vars,
                 final_vars>>

\* the scan is over: apply() goes on to apply_changes
ScanEnd ==
  /\ t_pc = "scan"
  /\ ScanDone(t_code, t_pos)
  /\ t_pc' = "commit"
  /\ UNCHANGED <<t_in, t_code, t_pos, t_replacement, m_replacements, m_deletes,
                 m_stats, driver_vars, builder_vars, serial_vars,
                 final_vars>>

\* apply_changes(code), and apply() returns m_stats
ApplyChanges ==
  /\ t_pc = "commit"
  /\ t_code' = apply_changes(t_code, m_replacements, m_deletes)
  /\ t_pc' = "done"
  /\ UNCHANGED <<t_in, t_pos, t_replacement, m_replacements, m_deletes, m_stats,
                 driver_vars, builder_vars, serial_vars,
                 final_vars>>

InitTransform ==
  /\ DriverIdle
  /\ BuilderIdle
  /\ SerialIdle
  /\ FinalIdle
  /\ \E first \in FirstInsnMenu : \E second \in SecondInsnMenu :
       \E v1 \in FirstValuesFor(first) : \E v2 \in SecondValuesFor(second) :
         \E moves \in BOOLEAN :
           LET code == <<first, second,
                         CpInsn(3, OPCODE_RETURN_VOID, {}, <<>>, 0, "", "")>>
           IN /\ t_code = code
              /\ \E redundant \in RedundantFor(code) :
                   t_in = [replace_moves_with_consts |-> moves,
                           values |-> <<v1, v2, NoValue>>,
                           redundant |-> redundant,
                           never_taken |-> {}, always_taken |-> {}]
  /\ t_pc = "scan"
  /\ t_pos = 1
  /\ t_replacement = <<>>
  /\ m_replacements = <<>>
  /\ m_deletes = <<>>
  /\ m_stats = Stats(0, 0)

NextTransform ==
  \/ ScanInsn
  \/ ScanEnd
  \/ ApplyChanges

SpecTransform == InitTransform /\ [][NextTransform]_vars

\* this step calls the visitor for the instruction at t_pos
VisitStep ==
  /\ t_pc = "scan"
  /\ t_pos <= Len(t_code)
  /\ EligibleForConst(t_in, t_code[t_pos])
  /\ t_pos' = t_pos + 1

\* C17: value_to_instruction_visitor gives, for a signed-integer domain with
\* an exact constant c, one instruction: const-wide if the original
\* destination is wide, const otherwise, with literal c and the original
\* destination; for a string domain with an exact constant s, two
\* instructions: const-string s, then move-result-pseudo-object into the
\* original destination; in every other case the empty list.
C17_VisitorReplacement ==
  [][VisitStep =>
       LET original == t_code[t_pos]
           value == t_in.values[t_pos]
           list == t_replacement'
       IN IF value.kind = "signed" /\ value.state = "constant"
          THEN /\ Len(list) = 1
               /\ list[1].op = (IF original.op = OPCODE_MOVE_WIDE
                                THEN OPCODE_CONST_WIDE ELSE OPCODE_CONST)
               /\ list[1].literal = value.literal
               /\ list[1].dest = original.dest
          ELSE IF value.kind = "string" /\ value.state = "constant"
          THEN /\ Len(list) = 2
               /\ list[1].op = OPCODE_CONST_STRING
               /\ list[1].string = value.string
               /\ list[2].op = IOPCODE_MOVE_RESULT_PSEUDO_OBJECT
               /\ list[2].dest = original.dest
          ELSE list = <<>>]_vars

C17_Witness ==
  /\ t_pc = "scan"
  /\ t_pos = 2
  /\ t_code[1].op = OPCODE_MOVE_WIDE
  /\ t_in.values[1] = SignedConstantDomain("constant", 0 - 1)
  /\ Len(t_replacement) = 1
  /\ t_replacement[1].op = OPCODE_CONST_WIDE
  /\ t_replacement[1].literal = 0 - 1
  /\ t_replacement[1].dest = {0}

\* queue is the sequence before with entries appended
Extends(before, queue) ==
  /\ Len(before) <= Len(queue)
  /\ SubSeq(queue, 1, Len(before)) = before

\* C18: Transform::apply is two-phase.  While the scan runs, its steps only
\* append to m_replacements and m_deletes and leave the instruction stream
\* as it is; the scan ends only when it has passed every instruction; once
\* the commit has started nothing is queued any more.
C18_TwoPhase ==
  [][/\ t_pc = "scan" =>
          /\ t_code' = t_code
          /\ Extends(m_replacements, m_replacements')
          /\ Extends(m_deletes, m_deletes')
          /\ t_pc' # "scan" => t_pos > Len(t_code)
     /\ t_pc # "scan" =>
          /\ m_replacements' = m_replacements
          /\ m_deletes' = m_deletes]_vars

C18_Witness ==
  /\ t_pc = "done"
  /\ Len(m_replacements) = 1
  /\ Len(m_deletes) = 1
  /\ Len(t_code) = 3
  /\ t_code[1].op = OPCODE_CONST_STRING
  /\ t_code[3].op = OPCODE_RETURN_VOID

\* the builder handles an invoke-super or invoke-interface instruction
UnknownInvokeStep ==
  /\ b_pc = "insn"
  /\ b_insn <= Len(CurBlock)
  /\ CurInsn.op \in UnknownInvokeOpcodes
  /\ b_insn' = b_insn + 1

\* C24: an invoke-super or invoke-interface instruction sets unknown-invoke
\* in the summary of the enclosing method, also when a callee summary is
\* available for it; it adds nothing else: the callee's effects and
\* modified_params are not consulted.
C24_SuperInterfaceUnknown ==
  [][UnknownInvokeStep =>
       /\ b_summary'.effects = b_summary.effects \cup {EFF_UNKNOWN_INVOKE}
       /\ b_summary'.modified_params = b_summary.modified_params]_vars

C24_Witness ==
  /\ b_pc = "insn"
  /\ b_block = 2
  /\ b_insn = 2
  /\ CurBlock[1].op = OPCODE_INVOKE_SUPER
  /\ 30 \in DOMAIN b_in.invoke_to_summary_cmap
  /\ b_in.invoke_to_summary_cmap[30].effects = {EFF_THROWS}
  /\ b_in.ptrs_fp_iter[2].pointers[0] = PointersTop
  /\ b_summary.effects = {EFF_UNKNOWN_INVOKE}
  /\ b_summary.modified_params = {}

RECURSIVE StateBefore(_, _, _)
\* the pointer state just before the i-th instruction of a block: the
\* entry state with the transfer function applied to the instructions
\* before it, in program order
StateBefore(insns, entry, i) ==
  IF i = 1 THEN entry
  ELSE analyze_instruction(insns[i - 1], StateBefore(insns, entry, i - 1))

\* the builder handles the instruction at b_insn of the block b_block
EffectsStep ==
  /\ b_pc = "insn"
  /\ b_insn <= Len(CurBlock)
  /\ b_insn' = b_insn + 1

\* C26: within a block, the effects of each instruction are classified
\* against the pointer state just before that instruction (the block's
\* entry state with the transfer function applied to the preceding
\* instructions of the block in program order), never a state that
\* includes the instruction itself or a later one.
C26_StateBeforeInstruction ==
  [][EffectsStep =>
       b_summary' =
         analyze_instruction_effects(
           b_in.code, b_in.invoke_to_summary_cmap,
           StateBefore(CurBlock, b_in.ptrs_fp_iter[b_block], b_insn),
           CurInsn, b_summary)]_vars

C26_Witness ==
  /\ b_pc = "insn"
  /\ b_block = 2
  /\ b_insn = 3
  /\ CurBlock[1] = Insn(30, OPCODE_IPUT_OBJECT, <<0, 1>>, {})
  /\ CurBlock[2] = Insn(31, OPCODE_IPUT, <<1, 0>>, {})
  /\ b_in.ptrs_fp_iter[2].escaped = {}
  /\ b_in.ptrs_fp_iter[2].pointers[0] = PointersOf({LocalSite})
  /\ b_in.ptrs_fp_iter[2].pointers[1] = PointersOf({LocalSite})
  /\ b_env.escaped = {LocalSite}
  /\ b_summary.effects = {EFF_WRITE_MAY_ESCAPE}
  /\ b_summary.modified_params = {}

RECURSIVE ReachedOnly(_, _, _)
\* the entries of seq, from index b, of the blocks whose entry state in
\* ptrs_fp_iter is not bottom
ReachedOnly(seq, ptrs_fp_iter, b) ==
  IF b > Len(seq) THEN <<>>
  ELSE (IF ptrs_fp_iter[b].bottom THEN <<>> ELSE <<seq[b]>>)
       \o ReachedOnly(seq, ptrs_fp_iter, b + 1)

\* C25: instructions in a block whose pointer-analysis entry state is bottom
\* contribute nothing: the summary build() returns equals the summary of the
\* same code with all bottom-entry blocks removed.
C25_BottomBlocksSkipped ==
  b_pc = "done" =>
    b_summary =
      build(b_in.invoke_to_summary_cmap,
            ReachedOnly(b_in.ptrs_fp_iter, b_in.ptrs_fp_iter, 1),
            [b_in.code EXCEPT
               !.blocks = ReachedOnly(b_in.code.blocks, b_in.ptrs_fp_iter, 1)])

C25_Witness ==
  /\ b_pc = "done"
  /\ b_in.ptrs_fp_iter[3].bottom
  /\ b_in.code.blocks[3][1].op = OPCODE_THROW
  /\ b_in.code.blocks[2][1].op = OPCODE_MONITOR_EXIT
  /\ b_summary.effects = {EFF_LOCKS}

(***************************************************************************)
(* Order of the summaries in analyze_method_recursive.                     *)
(***************************************************************************)
\* the frames whose edge loop is over: the summary builder runs next
BuildingFrames ==
  {stack[t][Len(stack[t])] :
     t \in {u \in Threads : stack[u] # <<>> /\ Top(u).pc = "build"}}

\* the edges of a frame's method whose callee has code and is not on the
\* frame's recursion path
OffPathEdges(f) ==
  {callee_edges(prog, f.method)[i] :
     i \in {j \in DOMAIN callee_edges(prog, f.method) :
              /\ has_code(prog, callee_edges(prog, f.method)[j].callee)
              /\ callee_edges(prog, f.method)[j].callee \notin f.visiting}}

OPCODE_IF_EQZ == "if-eqz"
OPCODE_IF_NE == "if-ne"
\* a branch target in the instruction list, e.g. (:loop)
MFLOW_TARGET == "target"
BranchOpcodes == {OPCODE_IF_EQZ, OPCODE_IF_NE}

FieldBar == "LFoo;.bar:I"
FieldBaz == "LFoo;.baz:I"
FieldUnknown == "LUnknown;.field:I"
\* the static fields of the class LFoo; under initialization
OwnFields == {FieldBar, FieldBaz}
\* the registers of a <clinit>
ClinitRegs == {0, 1}

Const(id, reg, literal) == CpInsn(id, OPCODE_CONST, {reg}, <<>>, literal, "", "")
SPut(id, reg, field) == CpInsn(id, OPCODE_SPUT, {}, <<reg>>, 0, "", field)
SGet(id, field) == CpInsn(id, OPCODE_SGET, {}, <<>>, 0, "", field)
MoveResultPseudo(id, reg) ==
  CpInsn(id, IOPCODE_MOVE_RESULT_PSEUDO, {reg}, <<>>, 0, "", "")
AddIntLit8(id, dest, reg, literal) ==
  CpInsn(id, OPCODE_ADD_INT_LIT8, {dest}, <<reg>>, literal, "", "")
IfEqz(id, reg, target) ==
  [CpInsn(id, OPCODE_IF_EQZ, {}, <<reg>>, 0, "", "") EXCEPT !.target = target]
IfNe(id, a, b, target) ==
  [CpInsn(id, OPCODE_IF_NE, {}, <<a, b>>, 0, "", "") EXCEPT !.target = target]
Target(id, name) ==
  [CpInsn(id, MFLOW_TARGET, {}, <<>>, 0, "", "") EXCEPT !.target = name]
ReturnVoid(id) == CpInsn(id, OPCODE_RETURN_VOID, {}, <<>>, 0, "", "")

\* the <clinit> of FinalInlineTest.encodeValues
encodeValuesCode ==
  <<Const(1, 0, 1), SPut(2, 0, FieldBar), ReturnVoid(3)>>

\* the <clinit> of FinalInlineTest.fieldSetInLoop
fieldSetInLoopCode ==
  <<Target(1, "loop"), SGet(2, FieldBar), MoveResultPseudo(3, 0),
    AddIntLit8(4, 0, 0, 1), SPut(5, 0, FieldBar), Const(6, 1, 10),
    IfNe(7, 0, 1, "loop"), ReturnVoid(8)>>

\* the <clinit> of FinalInlineTest.fieldConditionallySet
fieldConditionallySetCode ==
  <<SGet(1, FieldUnknown), MoveResultPseudo(2, 0), IfEqz(3, 0, "true"),
    Const(4, 1, 1), SPut(5, 1, FieldBar), Target(6, "true"),
    SGet(7, FieldBar), MoveResultPseudo(8, 0), SPut(9, 0, FieldBaz),
    SPut(10, 1, FieldBar), ReturnVoid(11)>>

\* the <clinit> of FinalInlineTest.dominatedSget
dominatedSgetCode ==
  <<Const(1, 0, 1), SPut(2, 0, FieldBar), SGet(3, FieldBar),
    MoveResultPseudo(4, 0), SPut(5, 0, FieldBaz), ReturnVoid(6)>>

\* the code FinalInlineTest.dominatedSget expects after the pass
dominatedSgetExpected ==
  <<Const(1, 0, 1), SPut(2, 0, FieldBar), ReturnVoid(3)>>

\* assembler::to_s_expr of a code: what the tests compare, which does not
\* tell one instruction object from an equal one
CodeText(code) == [i \in DOMAIN code |-> [code[i] EXCEPT !.id = 0]]

\* the values of the constant domain used for registers and fields
TopValue == SignedConstantDomain("top", 0)
BottomValue == SignedConstantDomain("bottom", 0)
ConstantValue(c) == SignedConstantDomain("constant", c)

JoinValueFirst(a, b) == IF a.state = "bottom" THEN b ELSE a

JoinValue(a, b) ==
  IF a = b THEN a
  ELSE IF a.state = "bottom" THEN b
  ELSE IF b.state = "bottom" THEN a
  ELSE TopValue

\* a ConstantEnvironment: registers, the result register and the fields of
\* the class under initialization; bottom is the unreachable point
BottomEnv ==
  [bottom |-> TRUE, regs |-> [r \in ClinitRegs |-> BottomValue],
   fields |-> [f \in OwnFields |-> BottomValue], result |-> BottomValue]

\* set_encoded_values on a fresh environment: every field of the class
\* holds its encoded static value, every register is unknown
set_encoded_values(static_values) ==
  [bottom |-> FALSE, regs |-> [r \in ClinitRegs |-> TopValue],
   fields |-> [f \in OwnFields |-> ConstantValue(static_values[f])],
   result |-> TopValue]

JoinEnv(a, b) ==
  IF a.bottom THEN b
  ELSE IF b.bottom THEN a
  ELSE [bottom |-> FALSE,
        regs |-> [r \in ClinitRegs |-> JoinValue(a.regs[r], b.regs[r])],
        fields |-> [f \in OwnFields |-> JoinValue(a.fields[f], b.fields[f])],
        result |-> JoinValue(a.result, b.result)]

RECURSIVE JoinAll(_)
JoinAll(envs) ==
  IF envs = {} THEN BottomEnv
  ELSE LET e == CHOOSE x \in envs : TRUE
       IN JoinEnv(e, JoinAll(envs \ {e}))

DestReg(insn) == CHOOSE r \in insn.dest : TRUE

\* the analyzer's transfer function for one instruction
AnalyzeInstruction(insn, env) ==
  IF env.bottom THEN env
  ELSE IF insn.op = OPCODE_CONST
  THEN [env EXCEPT !.regs[DestReg(insn)] = ConstantValue(insn.literal)]
  ELSE IF insn.op = OPCODE_SPUT
  THEN IF insn.field \in OwnFields
       THEN [env EXCEPT !.fields[insn.field] = env.regs[insn.srcs[1]]]
       ELSE env
  ELSE IF insn.op = OPCODE_SGET
  THEN [env EXCEPT !.result = IF insn.field \in OwnFields
                              THEN env.fields[insn.field] ELSE TopValue]
  ELSE IF insn.op = IOPCODE_MOVE_RESULT_PSEUDO
  THEN [env EXCEPT !.regs[DestReg(insn)] = env.result]
  ELSE IF insn.op = OPCODE_ADD_INT_LIT8
  THEN [env EXCEPT !.regs[DestReg(insn)] =
          IF env.regs[insn.srcs[1]].state = "constant"
          THEN ConstantValue(env.regs[insn.srcs[1]].literal + insn.literal)
          ELSE TopValue]
  ELSE env

\* the control-flow graph over instruction indices
Successors(code, i) ==
  IF code[i].op = OPCODE_RETURN_VOID THEN {}
  ELSE (IF code[i].op = OPCODE_GOTO THEN {} ELSE {i + 1} \cap DOMAIN code)
       \cup (IF code[i].op \in BranchOpcodes \cup {OPCODE_GOTO}
             THEN {j \in DOMAIN code : /\ code[j].op = MFLOW_TARGET
                                       /\ code[j].target = code[i].target}
             ELSE {})

Predecessors(code, i) == {p \in DOMAIN code : i \in Successors(code, p)}

MeetValue(a, b) ==
  IF a = b THEN a
  ELSE IF a.state = "top" THEN b
  ELSE IF b.state = "top" THEN a
  ELSE BottomValue

\* the environment with a register narrowed to a value; no value left for
\* the register means the point is unreachable
Narrow(env, reg, value) ==
  IF env.bottom \/ value.state = "bottom" THEN BottomEnv
  ELSE [env EXCEPT !.regs[reg] = value]

\* analyze_edge: the environment after a conditional branch on the edge
\* that is taken (or not): the edge on which the compared values are equal
\* narrows them to their meet, the edge on which they differ is unreachable
\* when they are the same constant
AnalyzeEdge(insn, env, taken) ==
  IF env.bottom \/ insn.op \notin BranchOpcodes THEN env
  ELSE LET left == env.regs[insn.srcs[1]]
           right == IF insn.op = OPCODE_IF_NE
                    THEN env.regs[insn.srcs[2]] ELSE ConstantValue(0)
           equal_edge == (insn.op = OPCODE_IF_EQZ) = taken
       IN IF equal_edge
          THEN IF insn.op = OPCODE_IF_NE
               THEN Narrow(Narrow(env, insn.srcs[1], MeetValue(left, right)),
                           insn.srcs[2], MeetValue(left, right))
               ELSE Narrow(env, insn.srcs[1], MeetValue(left, right))
          ELSE IF left.state = "constant" /\ left = right
               THEN BottomEnv ELSE env

\* the edges from instruction p to instruction i: the branch edge (TRUE)
\* to the target, the fall-through edge (FALSE) to the next instruction
EdgesBetween(code, p, i) ==
  {taken \in BOOLEAN :
     IF taken
     THEN /\ code[p].op \in BranchOpcodes \cup {OPCODE_GOTO}
          /\ code[i].op = MFLOW_TARGET
          /\ code[i].target = code[p].target
     ELSE code[p].op # OPCODE_GOTO /\ i = p + 1}

\* one round of the fixpoint iteration: the environment at the entry of
\* every instruction from the exits of its predecessors along the edges
IterateOnce(code, entry, envs) ==
  [i \in DOMAIN code |->
     JoinEnv(IF i = 1 THEN entry ELSE BottomEnv,
             JoinAll(UNION {{AnalyzeEdge(code[p],
                                         AnalyzeInstruction(code[p], envs[p]),
                                         taken) :
                               taken \in EdgesBetween(code, p, i)} :
                            p \in Predecessors(code, i)}))]

RECURSIVE Iterate(_, _, _)
Iterate(code, entry, envs) ==
  LET next == IterateOnce(code, entry, envs)
  IN IF next = envs THEN envs ELSE Iterate(code, entry, next)

\* intra_cp.run(entry): the environments at the entry of every instruction
run(code, entry) == Iterate(code, entry, [i \in DOMAIN code |-> BottomEnv])

\* get_exit_state_at(exit_block)
get_exit_state(code, envs) ==
  JoinAll({envs[i] : i \in {j \in DOMAIN code :
                              code[j].op = OPCODE_RETURN_VOID}})

ReadNoFields(code) == {}

\* the static fields the <clinit> reads: encode_values leaves them alone
ReadStaticFields(code) ==
  {code[i].field : i \in {j \in DOMAIN code : code[j].op = OPCODE_SGET}}

EncodeNothing(static_values, exit, blacklist) == static_values

\* encode_values: a field outside the blacklist that holds one constant at
\* the exit of the <clinit> gets the constant as its encoded static value
encode_values(static_values, exit, blacklist) ==
  [f \in DOMAIN static_values |->
     IF /\ f \notin blacklist
        /\ ~exit.bottom
        /\ exit.fields[f].state = "constant"
     THEN exit.fields[f].literal
     ELSE static_values[f]]

\* what the analysis proves for the destination of every instruction
ValuesAt(code, envs) ==
  [i \in DOMAIN code |->
     IF code[i].dest = {} THEN NoValue
     ELSE IF envs[i].bottom THEN BottomValue
     ELSE AnalyzeInstruction(code[i], envs[i]).regs[DestReg(code[i])]]

RedundantPutsNone(code, envs) == {}

\* the puts to a field of the class under initialization that write the
\* constant the field is known to hold already
RedundantPuts(code, envs) ==
  {code[i].id : i \in {j \in DOMAIN code :
      /\ code[j].op = OPCODE_SPUT
      /\ code[j].field \in OwnFields
      /\ ~envs[j].bottom
      /\ envs[j].fields[code[j].field].state = "constant"
      /\ envs[j].regs[code[j].srcs[1]] = envs[j].fields[code[j].field]}}

\* eliminate_dead_branch: the conditional branches at reachable points whose
\* branch edge (taken = TRUE) or fall-through edge is unreachable
DeadBranches(code, envs, taken) ==
  {code[i].id : i \in {j \in DOMAIN code :
      /\ code[j].op \in BranchOpcodes
      /\ ~envs[j].bottom
      /\ AnalyzeEdge(code[j], AnalyzeInstruction(code[j], envs[j]),
                     taken).bottom}}

\* registers an instruction reads
Uses(insn) == {insn.srcs[k] : k \in DOMAIN insn.srcs}

LiveOut(code, live, i) == UNION {live[j] : j \in Successors(code, i)}

RECURSIVE Liveness(_, _)
\* the registers live at the entry of every instruction
Liveness(code, live) ==
  LET next == [i \in DOMAIN code |->
                 Uses(code[i]) \cup (LiveOut(code, live, i) \ code[i].dest)]
  IN IF next = live THEN live ELSE Liveness(code, next)

\* instructions without side effects
PureOpcodes ==
  {OPCODE_CONST, OPCODE_CONST_WIDE, OPCODE_MOVE, OPCODE_MOVE_WIDE,
   OPCODE_MOVE_OBJECT, OPCODE_ADD_INT_LIT8}

DeadInsns(code) ==
  LET live == Liveness(code, [i \in DOMAIN code |-> {}])
  IN {i \in DOMAIN code : /\ code[i].op \in PureOpcodes
                          /\ code[i].dest \cap LiveOut(code, live, i) = {}}

RECURSIVE Without(_, _, _)
\* the code from index i without the instructions at the indices in dead
Without(code, i, dead) ==
  IF i > Len(code) THEN <<>>
  ELSE (IF i \in dead THEN <<>> ELSE <<code[i]>>) \o Without(code, i + 1, dead)

RECURSIVE LocalDce(_)
\* LocalDcePass::run(code): removes the pure instructions whose result no
\* later instruction reads, until none is left
LocalDce(code) ==
  LET dead == DeadInsns(code)
  IN IF dead = {} THEN code ELSE LocalDce(Without(code, 1, dead))

\* is_trivial_clinit: nothing but return-void
is_trivial_clinit(code) ==
  \A i \in DOMAIN code : code[i].op = OPCODE_RETURN_VOID

\* longest <clinit> body built from pieces
MaxPieces == 3

\* a piece of a straight-line <clinit>: a constant stored into a field, or
\* the value of bar copied into baz
PieceMenu ==
  {[kind |-> "store", field |-> f, literal |-> c] :
     f \in OwnFields, c \in {0, 1}}
  \cup {[kind |-> "copy", field |-> FieldBaz, literal |-> 0]}

PieceCode(piece) ==
  IF piece.kind = "store"
  THEN <<Const(0, 0, piece.literal), SPut(0, 0, piece.field)>>
  ELSE <<SGet(0, FieldBar), MoveResultPseudo(0, 0), SPut(0, 0, piece.field)>>

RECURSIVE PiecesCode(_)
PiecesCode(pieces) ==
  IF pieces = <<>> THEN <<ReturnVoid(0)>>
  ELSE PieceCode(Head(pieces)) \o PiecesCode(Tail(pieces))

\* every instruction object is its own
Numbered(code) == [i \in DOMAIN code |-> [code[i] EXCEPT !.id = i]]

\* the bounds of the loops
LoopBounds == {1, 2, 10}

\* the <clinit> of fieldSetInLoop for a field and a bound
LoopCode(field, bound) ==
  Numbered(<<Target(0, "loop"), SGet(0, field), MoveResultPseudo(0, 0),
             AddIntLit8(0, 0, 0, 1), SPut(0, 0, field), Const(0, 1, bound),
             IfNe(0, 0, 1, "loop"), ReturnVoid(0)>>)

ClinitMenu ==
  {encodeValuesCode, fieldSetInLoopCode, fieldConditionallySetCode,
   dominatedSgetCode}
  \cup {LoopCode(f, b) : f \in OwnFields, b \in LoopBounds}
  \cup {Numbered(PiecesCode(pieces)) :
          pieces \in UNION {[1..n -> PieceMenu] : n \in 1..MaxPieces}}

\* create_field_with_value: the declared values of bar and baz
StaticValuesMenu ==
  {[f \in OwnFields |-> IF f = FieldBar THEN v ELSE 0] : v \in {0, 1}}

\* first analysis of the <clinit> from the declared values, then
\* encode_values with the fields the <clinit> reads as blacklist
EncodeValues ==
  /\ f_pc = "start"
  /\ LET code == f_cls.code
         envs == run(code, set_encoded_values(f_cls.static_values))
     IN f_cls' = [f_cls EXCEPT !.static_values =
                    encode_values(f_cls.static_values,
                                  get_exit_state(code, envs),
                                  ReadStaticFields(code))]
  /\ f_pc' = "encoded"
  /\ UNCHANGED <<f_in, driver_vars, builder_vars, serial_vars, transform_vars>>

\* the analysis is run again from a fresh environment holding the new
\* encoded values, and Transform::apply starts on the <clinit>
StartTransform ==
  /\ f_pc = "encoded"
  /\ LET code == f_cls.code
         envs == run(code, set_encoded_values(f_cls.static_values))
     IN /\ t_in' = [replace_moves_with_consts |-> TRUE,
                    values |-> ValuesAt(code, envs),
                    redundant |-> RedundantPuts(code, envs),
                    never_taken |-> DeadBranches(code, envs, TRUE),
                    always_taken |-> DeadBranches(code, envs, FALSE)]
        /\ t_code' = code
  /\ t_pc' = "scan"
  /\ t_pos' = 1
  /\ f_pc' = "transform"
  /\ UNCHANGED <<t_replacement, m_replacements, m_deletes, m_stats, f_in,
                 f_cls, driver_vars, builder_vars, serial_vars>>

\* Transform::apply has returned: LocalDcePass::run on the code
RunLocalDce ==
  /\ f_pc = "transform"
  /\ t_pc = "done"
  /\ f_cls' = [f_cls EXCEPT !.code = LocalDce(t_code)]
  /\ f_pc' = "dce"
  /\ UNCHANGED <<f_in, driver_vars, builder_vars, serial_vars, transform_vars>>

\* if the <clinit> is trivial now, the class loses it
RemoveTrivialClinit ==
  /\ f_pc = "dce"
  /\ IF is_trivial_clinit(f_cls.code)
     THEN f_cls' = [f_cls EXCEPT !.has_clinit = FALSE, !.code = <<>>]
     ELSE UNCHANGED f_cls
  /\ f_pc' = "done"
  /\ UNCHANGED <<f_in, driver_vars, builder_vars, serial_vars, transform_vars>>

InitFinalInline ==
  /\ DriverIdle
  /\ BuilderIdle
  /\ SerialIdle
  /\ TransformIdle
  /\ f_pc = "start"
  /\ \E code \in ClinitMenu : \E static_values \in StaticValuesMenu :
       /\ f_in = [code |-> code, static_values |-> static_values]
       /\ f_cls = [has_clinit |-> TRUE, code |-> code,
                   static_values |-> static_values]

NextFinalInline ==
  \/ EncodeValues
  \/ StartTransform
  \/ ScanInsn
  \/ ScanEnd
  \/ ApplyChanges
  \/ RunLocalDce
  \/ RemoveTrivialClinit

SpecFinalInline == InitFinalInline /\ [][NextFinalInline]_vars

\* the indices of the stores to a field
StoresTo(code, field) ==
  {i \in DOMAIN code : code[i].op = OPCODE_SPUT /\ code[i].field = field}

\* the constant a store of straight-line code writes: the literal of the
\* last const before it into the register it stores
StoredConstant(code, i) ==
  LET ks == {k \in 1..(i - 1) : /\ code[k].op = OPCODE_CONST
                                /\ code[k].dest = {code[i].srcs[1]}}
  IN code[CHOOSE k \in ks : \A j \in ks : j <= k].literal

\* the <clinit> only loads constants and stores them into fields of its own
\* class, every field at most once, and returns
StoresConstantsOnly(code) ==
  /\ \A i \in DOMAIN code :
       code[i].op \in {OPCODE_CONST, OPCODE_SPUT, OPCODE_RETURN_VOID}
  /\ \E f \in OwnFields : StoresTo(code, f) # {}
  /\ \A f \in OwnFields : Cardinality(StoresTo(code, f)) <= 1

\* the instruction object is still in the code of the class's <clinit>
Remains(id) ==
  /\ f_cls.has_clinit
  /\ \E k \in DOMAIN f_cls.code : f_cls.code[k].id = id

\* C19: for a static initializer that only stores known constants into
\* static fields of its own class that it never reads (each field once) and
\* returns, the pass records each constant as the field's encoded static
\* value, removes the stores, and removes the <clinit> method.
C19_ConstantStoreEncoded ==
  (f_pc = "done" /\ StoresConstantsOnly(f_in.code)) =>
    /\ \A f \in OwnFields : \A i \in StoresTo(f_in.code, f) :
         /\ f_cls.static_values[f] = StoredConstant(f_in.code, i)
         /\ ~Remains(f_in.code[i].id)
    /\ ~f_cls.has_clinit

C19_Witness ==
  /\ f_pc = "done"
  /\ f_in.code = encodeValuesCode
  /\ f_in.static_values[FieldBar] = 0
  /\ f_cls.static_values[FieldBar] = 1
  /\ ~f_cls.has_clinit

\* the <clinit> as created reads the field somewhere
IsRead(code, field) ==
  \E i \in DOMAIN code : code[i].op = OPCODE_SGET /\ code[i].field = field

\* the environment at the exit of the <clinit> as created, analysed from
\* the declared values
DeclaredExit ==
  get_exit_state(f_in.code,
                 run(f_in.code, set_encoded_values(f_in.static_values)))

\* the unread field f holds one constant at exit: it is encoded, and when
\* the <clinit> has one store to it, the store is removed
UnreadEncoded(f) ==
  (~DeclaredExit.bottom /\ DeclaredExit.fields[f].state = "constant") =>
    /\ f_cls.static_values[f] = DeclaredExit.fields[f].literal
    /\ Cardinality(StoresTo(f_in.code, f)) = 1 =>
         \A i \in StoresTo(f_in.code, f) : ~Remains(f_in.code[i].id)

\* the puts the second analysis, run from the final encoded values, finds
\* to write the constant their field holds already
RedundantInFinal ==
  RedundantPuts(f_in.code,
                run(f_in.code, set_encoded_values(f_cls.static_values)))

\* C20 (as stated): a static field read anywhere in its own class's
\* <clinit> keeps its declared value and every store to it stays in the
\* code; an unread field of the class with one constant at exit is still
\* encoded and its store removed.
C20_Original ==
  f_pc = "done" =>
    \A f \in OwnFields : IsRead(f_in.code, f) =>
      /\ f_cls.static_values[f] = f_in.static_values[f]
      /\ \A i \in StoresTo(f_in.code, f) : Remains(f_in.code[i].id)
      /\ \A g \in OwnFields : ~IsRead(f_in.code, g) => UnreadEncoded(g)

\* C20 (amended): a static field read anywhere in its own class's <clinit>
\* keeps its declared value, and a store to it stays in the code exactly
\* when it does not write the constant the field is known to hold already
\* at that point; an unread field of the class with one constant at exit is
\* still encoded and its only store removed.
C20_ReadFieldNotEncoded ==
  f_pc = "done" =>
    \A f \in OwnFields : IsRead(f_in.code, f) =>
      /\ f_cls.static_values[f] = f_in.static_values[f]
      /\ \A i \in StoresTo(f_in.code, f) :
           Remains(f_in.code[i].id) <=> f_in.code[i].id \notin RedundantInFinal
      /\ \A g \in OwnFields : ~IsRead(f_in.code, g) => UnreadEncoded(g)

C20_Witness ==
  /\ f_pc = "done"
  /\ f_in.code = dominatedSgetCode
  /\ f_in.static_values[FieldBar] = 0
  /\ f_cls.static_values[FieldBar] = 0
  /\ f_cls.static_values[FieldBaz] = 1
  /\ Remains(2)
  /\ ~Remains(5)
  /\ CodeText(f_cls.code) = CodeText(dominatedSgetExpected)

\* the <clinit> as created is the loop of fieldSetInLoop on field f with
\* the bound b: read f, add 1, store, repeat until the value equals b
IsIncrementLoop(f, b) == f_in.code = LoopCode(f, b)

\* the pass left the class as it was created
Untouched(f) ==
  /\ DeclaredExit.fields[f].state # "constant"
  /\ f_cls.has_clinit
  /\ f_cls.code = f_in.code
  /\ f_cls.static_values = f_in.static_values

\* C21 (as stated): for a static initializer that updates a field inside a
\* loop (read field, add 1, store, repeat until the value equals a bound)
\* the fixpoint reaches no single constant for the field, the pass leaves
\* the code exactly unchanged and the static value at its declared default.
C21_Original ==
  f_pc = "done" =>
    \A f \in OwnFields : \A b \in LoopBounds :
      IsIncrementLoop(f, b) => Untouched(f)

\* C21 (amended): the same, for a bound that the first pass through the
\* loop body does not reach, that is a bound other than the field's
\* declared value plus 1.
C21_LoopLeftUnchanged ==
  f_pc = "done" =>
    \A f \in OwnFields : \A b \in LoopBounds :
      (IsIncrementLoop(f, b) /\ b # f_in.static_values[f] + 1) => Untouched(f)

C21_Witness ==
  /\ f_pc = "done"
  /\ f_in.code = fieldSetInLoopCode
  /\ IsIncrementLoop(FieldBar, 10)
  /\ f_in.static_values[FieldBar] = 0
  /\ f_cls.static_values[FieldBar] = 0
  /\ f_cls.code = fieldSetInLoopCode
  /\ m_replacements = <<>>
  /\ m_deletes = <<>>

(***************************************************************************)
(* Properties of the final summary map of analyze_scope.                   *)
(***************************************************************************)
\* the opcode of invoke instruction id of method x
InvokeOp(p, x, id) ==
  (CHOOSE insn \in InsnsOf(code_of(p, x)) : insn.id = id).op

\* the methods analyze_scope summarizes itself: with code, without a
\* summary in the caller's map
Analyzed ==
  {m \in Methods : /\ has_code(prog, m)
                   /\ m \notin DOMAIN prog.seeds
                   /\ m \in DOMAIN summary_map}

\* C23: in the final summary map, for every call-graph edge from a method M
\* (with code, not pre-seeded) to a callee C through an invoke-static,
\* -direct or -virtual, M's effects include unknown-invoke or every effect
\* of C's final summary, also when one invoke instruction has several
\* call-graph edges.
C23_EffectsPropagate ==
  phase = "done" =>
    \A m \in Analyzed :
      \A i \in DOMAIN callee_edges(prog, m) :
        LET e == callee_edges(prog, m)[i]
        IN (/\ InvokeOp(prog, m, e.insn) \in ResolvedInvokeOpcodes
            /\ e.callee \in DOMAIN summary_map) =>
             \/ EFF_UNKNOWN_INVOKE \in summary_map[m].effects
             \/ summary_map[e.callee].effects \subseteq summary_map[m].effects

\* the call graph of the program has no cycle
Acyclic ==
  \A m \in AllMethods :
    m \notin ReachClosure({y \in AllMethods : EdgeTo(prog, m, y)}, AllMethods)

\* the summaries the walk starts from: those of the caller's map and the
\* one analyze_scope sets for Object.<init>
StartMap == EmplaceOverwrite(prog.seeds, ObjectInit, SummaryOfParams({0}))

RECURSIVE BottomUpSummary(_)
RECURSIVE BottomUpInvokes(_, _, _)
\* sequential evaluation, callees first: the summary of a method from the
\* summaries of its callees
BottomUpSummary(m) ==
  IF m \in DOMAIN StartMap THEN StartMap[m]
  ELSE BuildSummary(prog, m, BottomUpInvokes(m, 1, EmptyMap))

\* the callee summaries of the edges of m from index i, one per invoke
\* instruction, the first one kept
BottomUpInvokes(m, i, inv) ==
  IF i > Len(callee_edges(prog, m)) THEN inv
  ELSE LET e == callee_edges(prog, m)[i]
       IN BottomUpInvokes(
            m, i + 1,
            IF e.callee \in DOMAIN StartMap \/ has_code(prog, e.callee)
            THEN Emplace(inv, e.insn, BottomUpSummary(e.callee))
            ELSE inv)

\* C27: on an acyclic call graph the final summary of every method is the
\* one a sequential bottom-up (callees first) evaluation gives, whatever
\* the order in which scope methods are taken, the number of workers and
\* the interleaving.
C27_Deterministic ==
  (phase = "done" /\ Acyclic) =>
    /\ DOMAIN summary_map =
         DOMAIN StartMap \cup {m \in Explored : has_code(prog, m)}
    /\ \A m \in DOMAIN summary_map : summary_map[m] = BottomUpSummary(m)

C27_Witness ==
  /\ phase = "done"
  /\ Acyclic
  /\ prog.shapes["A"] = Call2("B", "C")
  /\ prog.shapes["B"] = Call1(OPCODE_INVOKE_VIRTUAL, "C")
  /\ prog.shapes["C"] = Leaf
  /\ prog.seeds = EmptyMap
  /\ prog.scope = {"A", "B", "C"}
  /\ summary_map["A"].effects = {EFF_THROWS, EFF_LOCKS}
  /\ summary_map["A"] = BottomUpSummary("A")

\* C28: a recursion path never contains the same method twice: the methods
\* of the nested calls of analyze_method_recursive that passed the entry
\* check are pairwise distinct, so the nesting depth is at most the number
\* of methods with code.
C28_PathDistinct ==
  \A t \in Threads :
    /\ \A i, j \in DOMAIN stack[t] :
         i # j => stack[t][i].method # stack[t][j].method
    /\ \A i \in DOMAIN stack[t] : has_code(prog, stack[t][i].method)
    /\ Len(stack[t]) <= Cardinality({m \in AllMethods : has_code(prog, m)})

C28_Witness ==
  \E t \in Threads :
    /\ Len(stack[t]) = 3
    /\ Top(t).pc = "ret"
    /\ Top(t).edge = 1
    /\ callee_edges(prog, Top(t).method)[1].callee = stack[t][1].method
    /\ stack[t][1].method \notin DOMAIN summary_cmap

====
